---- MODULE Spec2Model ----
(***************************************************************************)
(* Unity -> O3DE converter: the three conversion pipelines                 *)
(*   integrated : src/integrated_asset_processor.py (IntegratedAssetProcessor) *)
(*   scene      : src/unity_scene_converter_gui.py  (UnitySceneConverter)  *)
(*   prefab     : src/unity_prefab_to_o3de.py       (UnityPrefabConverter) *)
(*                                                                         *)
(* Floats are fixed-point integers: one unit is 1e-5, so the tolerance     *)
(* 0.0001 is 10 units and 1.0 is One units.  Negation and subtraction of   *)
(* the values used here are exact in binary floating point as well.        *)
(***************************************************************************)
EXTENDS Integers, Sequences, FiniteSets, TLC

VARIABLES
    pc,                 \* the step the run has reached
    unity_transform,    \* CoordinateTransform: the input of convert
    converted,          \* CoordinateTransform: the result in each pipeline
    pipeline,           \* which of the three converters runs
    file,               \* the blocks of the source file, in file order
    game_objects,       \* dict file_id -> GameObject
    go_order,           \* the insertion order of game_objects' keys
    transform_map,      \* dict Transform anchor -> GameObject file_id
    guid_to_path,       \* AssetDatabase.guid_to_path
    entity_id_counter,  \* entity_id_counter / entity_counter
    prefab_data,        \* the document written, NoData before
    result,             \* what process_prefab returned, FALSE before it returns
    component_id,       \* the Id drawn for the first component of the container
                        \* entity of the document written last, None before
    prefab_db,          \* PrefabDatabase: [prefab_guids, prefab_paths]
    prefab_instances,   \* UnitySceneConverter.prefab_instances
    prefab_references,  \* UnitySceneConverter.prefab_references
    missing_prefabs,    \* UnitySceneConverter.missing_prefabs
    entity_counter,     \* UnitySceneConverter.entity_counter
    instance_counter,   \* UnitySceneConverter.instance_counter
    level_data,         \* the level document written, NoData before
    log,                \* the lines reported so far (log callback, print, GUI log)
    prefab_dirs,        \* SceneConverterGUI.prefab_dirs
    prefab_files,       \* the files of the batch, in the order of the loop
    success_count,      \* success_count of the batch loop
    returned,           \* what process_prefab returned for each file so far
    blender_path,       \* IntegratedAssetProcessor.blender_path, None without Blender
    processed_materials, \* dict material guid -> asset hint
    processed_textures, \* dict texture guid -> relative output path
    processed_meshes,   \* dict mesh guid -> asset hint
    output_files,       \* the files of the Materials, Textures and Meshes folders
    copies,             \* history: how often each guid's asset was written, baked
                        \* or copied into the output folders
    btn_state,          \* the state of convert_btn / process_btn
    workers,            \* the worker threads that have started and not ended
    after_queue         \* the callbacks handed to root.after(0, ...), oldest first

convertVars == <<unity_transform, converted>>
graphVars == <<pipeline, file, game_objects, go_order, transform_map, guid_to_path>>
outputVars == <<entity_id_counter, prefab_data, result, component_id>>
sceneVars == <<prefab_db, prefab_instances, prefab_references, missing_prefabs,
               entity_counter, instance_counter, level_data>>

assetVars == <<blender_path, processed_materials, processed_textures,
               processed_meshes, output_files, copies>>
guiVars == <<btn_state, workers, after_queue>>
runVars == <<prefab_dirs, prefab_files, success_count, returned, assetVars, guiVars>>

vars == <<pc, convertVars, graphVars, outputVars, sceneVars, log, runVars>>

\* tolerance: float = 0.0001 (Transform.is_uniform_scale), in units of 1e-5
Tolerance == 10
\* 1.0 in the same units
One == 10000 * Tolerance

Abs(x) == IF x < 0 THEN -x ELSE x

\* no value (Python None)
None == "None"

-----------------------------------------------------------------------------
(* Python dicts and lists                                                  *)

\* d[k] = v on a dict (a function whose domain is the set of keys)
Put(d, k, v) == [x \in (DOMAIN d) \cup {k} |-> IF x = k THEN v ELSE d[x]]

\* {} : the empty dict
EmptyDict == [x \in {} |-> None]

\* None where the value, when present, is a dict
NoData == EmptyDict

\* d.get(k) / "k in d and d[k]"
Get(d, k) == IF k \in DOMAIN d THEN d[k] ELSE None

\* if cond: d[k] = v
PutIf(d, cond, k, v) == IF cond THEN Put(d, k, v) ELSE d

\* any(abs(v) > 0.0001 for v in vec)
AnyBeyondTolerance(vec) == \E i \in DOMAIN vec : Abs(vec[i]) > Tolerance

\* n & bit != 0, for bit a power of two
BitSet(n, bit) == (n \div bit) % 2 = 1

-----------------------------------------------------------------------------
(* CoordinateTransform                                                     *)

\* dataclass Transform
Transform(p, r, s) == [position |-> p, rotation |-> r, scale |-> s]

\* Transform(): the dataclass defaults
DefaultTransform == Transform(<<0, 0, 0>>, <<0, 0, 0, One>>, <<One, One, One>>)

\* Transform.is_uniform_scale (the same three lines in the three files)
is_uniform_scale(t) ==
    /\ Abs(t.scale[1] - t.scale[2]) < Tolerance
    /\ Abs(t.scale[2] - t.scale[3]) < Tolerance

\* mutant: the scale is copied without the Y/Z swap
IntegratedConvertScaleNotSwapped(t) ==
    LET o3de_pos   == <<-t.position[1], t.position[3], t.position[2]>>
        o3de_rot   == <<-t.rotation[1], t.rotation[3], t.rotation[2], t.rotation[4]>>
        conv       == Transform(o3de_pos, o3de_rot, t.scale)
    IN  [transform |-> conv, needs_nonuniform |-> ~is_uniform_scale(conv)]

\* IntegratedAssetProcessor._convert_to_o3de_coordinates
IntegratedConvert(t) ==
    LET o3de_pos   == <<-t.position[1], t.position[3], t.position[2]>>
        o3de_rot   == <<-t.rotation[1], t.rotation[3], t.rotation[2], t.rotation[4]>>
        o3de_scale == <<t.scale[1], t.scale[3], t.scale[2]>>
        conv       == Transform(o3de_pos, o3de_rot, o3de_scale)
    IN  [transform |-> conv, needs_nonuniform |-> ~is_uniform_scale(conv)]

\* UnitySceneConverter.convert_to_o3de_coordinates
SceneConvert(t) ==
    LET o3de_pos   == <<-t.position[1], t.position[3], t.position[2]>>
        o3de_rot   == <<-t.rotation[1], t.rotation[3], t.rotation[2], t.rotation[4]>>
        o3de_scale == <<t.scale[1], t.scale[3], t.scale[2]>>
        conv       == Transform(o3de_pos, o3de_rot, o3de_scale)
    IN  [transform |-> conv, needs_nonuniform |-> ~is_uniform_scale(conv)]

\* mutant: the X negation of the position is forgotten
PrefabConvertNoNegation(t) ==
    LET o3de_pos   == <<t.position[1], t.position[3], t.position[2]>>
        o3de_rot   == <<-t.rotation[1], t.rotation[3], t.rotation[2], t.rotation[4]>>
        o3de_scale == <<t.scale[1], t.scale[3], t.scale[2]>>
        conv       == Transform(o3de_pos, o3de_rot, o3de_scale)
    IN  [transform |-> conv, needs_nonuniform |-> ~is_uniform_scale(conv)]

\* UnityPrefabConverter.convert_to_o3de_coordinates
PrefabConvert(t) ==
    LET o3de_pos   == <<-t.position[1], t.position[3], t.position[2]>>
        o3de_rot   == <<-t.rotation[1], t.rotation[3], t.rotation[2], t.rotation[4]>>
        o3de_scale == <<t.scale[1], t.scale[3], t.scale[2]>>
        conv       == Transform(o3de_pos, o3de_rot, o3de_scale)
    IN  [transform |-> conv, needs_nonuniform |-> ~is_uniform_scale(conv)]

\* the variables of a part of the program that a specification does not run
ConvertIdle == unity_transform = DefaultTransform /\ converted = EmptyDict
GraphIdle ==
    /\ pipeline = None /\ file = <<>> /\ game_objects = EmptyDict /\ go_order = <<>>
    /\ transform_map = EmptyDict /\ guid_to_path = EmptyDict
OutputIdle ==
    /\ entity_id_counter = 0 /\ prefab_data = NoData /\ result = FALSE
    /\ component_id = None
SceneIdle ==
    /\ prefab_db = EmptyDict /\ prefab_instances = <<>>
    /\ prefab_references = EmptyDict /\ missing_prefabs = {}
    /\ entity_counter = 0 /\ instance_counter = 0 /\ level_data = NoData
AssetsIdle ==
    /\ blender_path = None
    /\ processed_materials = EmptyDict /\ processed_textures = EmptyDict
    /\ processed_meshes = EmptyDict /\ output_files = {} /\ copies = EmptyDict
GuiIdle == btn_state = "normal" /\ workers = 0 /\ after_queue = <<>>
\* the start button pressed and the worker thread in its run
GuiRunning == btn_state = "disabled" /\ workers = 1 /\ after_queue = <<>>
RunIdle ==
    /\ log = {} /\ prefab_dirs = <<>> /\ prefab_files = <<>> /\ success_count = 0
    /\ returned = <<>>
    /\ AssetsIdle
    /\ GuiIdle

\* a reported line: its text without the values, and the value it reports, as
\* text.  The log holds the warnings, errors, counts and results; banners and
\* progress lines are left out, and so is the order of the lines.
LogLine(msg, arg) == [msg |-> msg, arg |-> arg]

\* input transforms of the conversion check
PosVals == {-2 * One, 0, 3 * One}
Positions == {<<x, y, z>> : x \in PosVals, y \in PosVals, z \in {0, One}}
Rotations == {<<0, 0, 0, One>>, <<One, 0, 0, 0>>, <<0, One, 0, 0>>,
              <<0, 0, -One, 0>>, <<50000, -50000, 50000, 50000>>,
              <<-One, 0, 0, 0>>}
ScaleVals == {One, One + 9, One + 18, 2 * One}
Scales == {<<x, y, z>> : x \in ScaleVals, y \in ScaleVals, z \in ScaleVals}

ConvertInit ==
    /\ pc = "input"
    /\ unity_transform \in
         {Transform(p, <<0, 0, 0, One>>, <<One, One, One>>) : p \in Positions}
         \cup {Transform(<<0, 0, 0>>, r, <<One, One, One>>) : r \in Rotations}
         \cup {Transform(<<One, 2 * One, 3 * One>>, <<0, 0, 0, One>>, s) : s \in Scales}
    /\ converted = EmptyDict
    /\ GraphIdle
    /\ OutputIdle
    /\ SceneIdle
    /\ RunIdle

\* one call of convert in each of the three pipelines on the same input
Convert ==
    /\ pc = "input"
    /\ converted' = [integrated |-> IntegratedConvert(unity_transform),
                     scene      |-> SceneConvert(unity_transform),
                     prefab     |-> PrefabConvert(unity_transform)]
    /\ pc' = "converted"
    /\ UNCHANGED <<unity_transform, graphVars, outputVars, sceneVars, log, runVars>>

ConvertNext == Convert

SpecConvert == ConvertInit /\ [][ConvertNext]_vars

-----------------------------------------------------------------------------
(* GameObject                                                              *)

\* dataclass GameObject (the fields of the three files together)
GameObject(file_id, name, transform) ==
    [file_id |-> file_id, name |-> name, transform |-> transform,
     parent_id |-> None, children_ids |-> <<>>,
     mesh_guid |-> None, material_guids |-> <<>>,
     has_rigidbody |-> FALSE, rigidbody_data |-> NoData, colliders |-> <<>>,
     is_prefab_instance |-> FALSE, prefab_source_guid |-> None,
     prefab_name |-> None]

-----------------------------------------------------------------------------
(* ComponentSynthesizer: PhysX components (integrated pipeline)            *)

\* f"Entity_[{n}]"
EntityIdOf(n) == "Entity_[" \o ToString(n) \o "]"

\* f"Instance_[{n}]"
InstanceIdOf(n) == "Instance_[" \o ToString(n) \o "]"

\* the editor components every bare (collider child) entity carries
BareEditorComponents ==
    {"EditorDisabledCompositionComponent", "EditorEntityIconComponent",
     "EditorInspectorComponent", "EditorLockComponent",
     "EditorOnlyEntityComponent", "EditorPendingCompositionComponent",
     "EditorVisibilityComponent"}

\* mutant: the collider children are parented to the container entity
MakeBareEntityBelowContainer(entity_id, name, parent_entity_id) ==
    [Id |-> entity_id, Name |-> name,
     Components |->
        [k \in BareEditorComponents \cup {"TransformComponent"} |->
            IF k = "TransformComponent"
            THEN [type |-> "TransformComponent", ParentEntity |-> "ContainerEntity"]
            ELSE [type |-> k]]]

\* IntegratedAssetProcessor._make_bare_entity
MakeBareEntity(entity_id, name, parent_entity_id) ==
    [Id |-> entity_id, Name |-> name,
     Components |->
        [k \in BareEditorComponents \cup {"TransformComponent"} |->
            IF k = "TransformComponent"
            THEN [type |-> "TransformComponent", ParentEntity |-> parent_entity_id]
            ELSE [type |-> k]]]

\* hint.replace('.azmodel', '.pxmesh') on an asset hint <<stem, suffix>>
ReplaceAzmodelByPxmesh(hint) ==
    IF hint[2] = ".azmodel" THEN <<hint[1], ".pxmesh">> ELSE hint

\* IntegratedAssetProcessor._add_mesh_collider
AddMeshCollider(components, collider, is_trigger, mesh_mapping, go) ==
    LET collider_cfg == IF is_trigger THEN [MaterialSlots |-> "Entire object", Trigger |-> TRUE]
                        ELSE [MaterialSlots |-> "Entire object"]
        hint == IF collider.mesh_guid # "" /\ collider.mesh_guid \in DOMAIN mesh_mapping
                THEN ReplaceAzmodelByPxmesh(mesh_mapping[collider.mesh_guid])
                ELSE IF go.mesh_guid # None /\ go.mesh_guid \in DOMAIN mesh_mapping
                THEN ReplaceAzmodelByPxmesh(mesh_mapping[go.mesh_guid])
                ELSE None
        mesh_comp == IF hint # None
                     THEN [type |-> "EditorMeshColliderComponent",
                           ColliderConfiguration |-> collider_cfg,
                           ShapeConfiguration |-> [assetHint |-> hint]]
                     ELSE [type |-> "EditorMeshColliderComponent",
                           ColliderConfiguration |-> collider_cfg]
    IN  Put(components, "EditorMeshColliderComponent", mesh_comp)

\* the optional TranslationOffset / Position entry of a configuration dict
WithOffset(cfg, key, has_offset, offset) ==
    IF has_offset THEN Put(cfg, key, offset) ELSE cfg

\* IntegratedAssetProcessor._add_shape_collider
AddShapeCollider(components, collider, col_type, offset, is_trigger) ==
    LET has_offset == AnyBeyondTolerance(offset)
        dims == <<collider.size[1], collider.size[3], collider.size[2]>>
        shape_config ==
            CASE col_type = "BoxCollider" ->
                   [type |-> "BoxShapeConfiguration", Configuration |-> dims]
              [] col_type = "SphereCollider" ->
                   [type |-> "SphereShapeConfiguration", Radius |-> collider.radius]
              [] col_type = "CapsuleCollider" ->
                   [type |-> "CapsuleShapeConfiguration",
                    Height |-> collider.height, Radius |-> collider.radius]
              [] OTHER -> EmptyDict
        withShape ==
            CASE col_type = "BoxCollider" ->
                   Put(components, "EditorBoxShapeComponent",
                       [type |-> "EditorBoxShapeComponent",
                        Configuration |->
                            WithOffset([Dimensions |-> dims],
                                       "TranslationOffset", has_offset, offset)])
              [] col_type = "SphereCollider" ->
                   Put(components, "EditorSphereShapeComponent",
                       [type |-> "EditorSphereShapeComponent",
                        Configuration |->
                            WithOffset([Radius |-> collider.radius],
                                       "TranslationOffset", has_offset, offset)])
              [] col_type = "CapsuleCollider" ->
                   Put(components, "EditorCapsuleShapeComponent",
                       [type |-> "EditorCapsuleShapeComponent",
                        Configuration |->
                            WithOffset([Height |-> collider.height,
                                        Radius |-> collider.radius],
                                       "TranslationOffset", has_offset, offset)])
              [] OTHER -> components
        trig == IF is_trigger THEN [MaterialSlots |-> "Entire object", Trigger |-> TRUE]
                ELSE [MaterialSlots |-> "Entire object"]
        collider_cfg == WithOffset(trig, "Position", has_offset, offset)
    IN  Put(withShape, "EditorShapeColliderComponent",
            [type |-> "EditorShapeColliderComponent",
             ColliderConfiguration |-> collider_cfg,
             ShapeConfigs |-> <<shape_config>>])

\* the center handed on as it is, its axes not remapped
AddColliderCenterAsIs(target, collider, mesh_mapping, go) ==
    LET offset == collider.center
    IN  IF collider.type = "MeshCollider"
        THEN AddMeshCollider(target, collider, collider.is_trigger, mesh_mapping, go)
        ELSE AddShapeCollider(target, collider, collider.type, offset,
                              collider.is_trigger)

\* one collider added to target (the body of the collider loop after the target
\* is chosen)
AddCollider(target, collider, mesh_mapping, go) ==
    LET offset == <<-collider.center[1], collider.center[3], collider.center[2]>>
    IN  IF collider.type = "MeshCollider"
        THEN AddMeshCollider(target, collider, collider.is_trigger, mesh_mapping, go)
        ELSE AddShapeCollider(target, collider, collider.type, offset,
                              collider.is_trigger)

\* the serializer's running state: the processor's counters and the dicts of the
\* document being written
SerializerState(counter) ==
    [entity_id_counter |-> counter, entities |-> EmptyDict, instances |-> EmptyDict,
     entity_id_map |-> EmptyDict, total_colliders |-> 0, total_rigidbodies |-> 0,
     overflow |-> FALSE]

\* mutant: every collider is attached to the primary entity, no child is made
RECURSIVE PhysxColliderLoopAllOnPrimary(_, _, _, _, _)
PhysxColliderLoopAllOnPrimary(go, idx, acc, entity_id, mesh_mapping) ==
    IF idx >= Len(go.colliders) THEN acc
    ELSE PhysxColliderLoopAllOnPrimary(go, idx + 1,
           [components |-> AddCollider(acc.components, go.colliders[idx + 1],
                                       mesh_mapping, go),
            st |-> [acc.st EXCEPT !.total_colliders = @ + 1],
            child_entity_ids |-> acc.child_entity_ids],
           entity_id, mesh_mapping)

\* the collider loop of _create_physx_components from index idx on (idx counts
\* from 0 as enumerate does); acc = [components, st, child_entity_ids]
RECURSIVE PhysxColliderLoop(_, _, _, _, _)
PhysxColliderLoop(go, idx, acc, entity_id, mesh_mapping) ==
    IF idx >= Len(go.colliders) THEN acc
    ELSE
      LET collider == go.colliders[idx + 1] IN
      IF idx = 0
      THEN PhysxColliderLoop(go, idx + 1,
             [components |-> AddCollider(acc.components, collider, mesh_mapping, go),
              st |-> [acc.st EXCEPT !.total_colliders = @ + 1],
              child_entity_ids |-> acc.child_entity_ids],
             entity_id, mesh_mapping)
      ELSE
        LET counter  == acc.st.entity_id_counter + 1
            child_id == EntityIdOf(counter)
            bare     == MakeBareEntity(child_id,
                                       go.name \o "_Collider_" \o ToString(idx),
                                       entity_id)
            marked   == Put(bare.Components, "EditorStaticRigidBodyComponent",
                            [type |-> "EditorStaticRigidBodyComponent"])
            child    == [bare EXCEPT !.Components =
                                 AddCollider(marked, collider, mesh_mapping, go)]
        IN  PhysxColliderLoop(go, idx + 1,
              [components |-> acc.components,
               st |-> [acc.st EXCEPT !.entity_id_counter = counter,
                                     !.entities = Put(@, child_id, child),
                                     !.total_colliders = @ + 1],
               child_entity_ids |-> Append(acc.child_entity_ids, child_id)],
              entity_id, mesh_mapping)

\* mutant: the bits are translated without the Y/Z swap
ConstraintLocksNotSwapped ==
    << <<2, "Lock Linear X">>, <<4, "Lock Linear Y">>, <<8, "Lock Linear Z">>,
       <<16, "Lock Angular X">>, <<32, "Lock Angular Y">>, <<64, "Lock Angular Z">> >>

\* Unity constraint bit -> O3DE lock flag (the six "if constraints & bit" lines)
ConstraintLocks ==
    << <<2, "Lock Linear X">>, <<4, "Lock Linear Z">>, <<8, "Lock Linear Y">>,
       <<16, "Lock Angular X">>, <<32, "Lock Angular Z">>, <<64, "Lock Angular Y">> >>

\* the lock flags set on config for the bitmask constraints, table rows i..
RECURSIVE ApplyLocks(_, _, _, _)
ApplyLocks(config, constraints, locks, i) ==
    IF i > Len(locks) THEN config
    ELSE ApplyLocks(IF BitSet(constraints, locks[i][1])
                    THEN Put(config, locks[i][2], TRUE) ELSE config,
                    constraints, locks, i + 1)

\* the "Configuration" of EditorRigidBodyComponent
RigidBodyConfig(rb) ==
    LET base == [x \in {"Mass", "Linear damping", "Angular damping", "Gravity Enabled"} |->
                    CASE x = "Mass" -> rb.mass
                      [] x = "Linear damping" -> rb.drag
                      [] x = "Angular damping" -> rb.angular_drag
                      [] x = "Gravity Enabled" -> rb.use_gravity]
        kin  == IF rb.is_kinematic THEN Put(base, "Kinematic", TRUE) ELSE base
    IN  IF rb.constraints # 0
        THEN ApplyLocks(kin, rb.constraints, ConstraintLocks, 1)
        ELSE kin

\* rb = go.rigidbody_data or {} with the defaults of the rb.get(...) calls
DefaultRigidbodyData ==
    [mass |-> One, drag |-> 0, angular_drag |-> 5000, use_gravity |-> TRUE,
     is_kinematic |-> FALSE, constraints |-> 0]

\* mutant: the static-body marker is added whenever a collider exists, rigidbody
\* or not
RigidBodyComponentsAlwaysStatic(go, components) ==
    PutIf(PutIf(components, go.has_rigidbody, "EditorRigidBodyComponent",
                [type |-> "EditorRigidBodyComponent",
                 Configuration |-> RigidBodyConfig(go.rigidbody_data)]),
          Len(go.colliders) > 0, "EditorStaticRigidBodyComponent",
          [type |-> "EditorStaticRigidBodyComponent"])

\* the "if go.has_rigidbody: ... elif go.colliders: ..." tail of
\* _create_physx_components
RigidBodyComponents(go, components) ==
    IF go.has_rigidbody
    THEN Put(components, "EditorRigidBodyComponent",
             [type |-> "EditorRigidBodyComponent",
              Configuration |-> RigidBodyConfig(IF go.rigidbody_data = NoData
                                                THEN DefaultRigidbodyData
                                                ELSE go.rigidbody_data)])
    ELSE PutIf(components, Len(go.colliders) > 0, "EditorStaticRigidBodyComponent",
               [type |-> "EditorStaticRigidBodyComponent"])

\* what _create_physx_components returns and leaves behind, given the outcome of
\* its collider loop
PhysxResult(go, entity, looped) ==
    [entity |-> [entity EXCEPT !.Components = RigidBodyComponents(go, looped.components)],
     st |-> [looped.st EXCEPT !.total_rigidbodies =
                  IF go.has_rigidbody \/ Len(go.colliders) > 0 THEN @ + 1 ELSE @],
     child_entity_ids |-> looped.child_entity_ids]

\* IntegratedAssetProcessor._create_physx_components: the entity with its physics
\* components, the state with the collider children added, and their ids
CreatePhysxComponents(go, entity, mesh_mapping, st) ==
    IF Len(go.colliders) = 0 /\ ~go.has_rigidbody
    THEN [entity |-> entity, st |-> st, child_entity_ids |-> <<>>]
    ELSE PhysxResult(go, entity,
                     PhysxColliderLoop(go, 0,
                                       [components |-> entity.Components, st |-> st,
                                        child_entity_ids |-> <<>>],
                                       entity.Id, mesh_mapping))

-----------------------------------------------------------------------------
(* EntityTreeSerializer (integrated pipeline)                              *)

\* _quaternion_to_euler, tabulated (degrees in fixed point) on the rotations the
\* inputs use: identity, and the converted half turns about Unity's Y and X axes
QuaternionToEuler(q) ==
    CASE q = <<0, 0, 0, One>>  -> <<0, 0, 0>>
      [] q = <<0, 0, One, 0>>  -> <<0, 0, 180 * One>>
      [] q = <<-One, 0, 0, 0>> -> <<180 * One, 0, 0>>

\* the editor components every plain entity starts with
EditorComponents ==
    {"EditorDisabledCompositionComponent", "EditorEntityIconComponent",
     "EditorInspectorComponent", "EditorLockComponent",
     "EditorPendingCompositionComponent", "EditorVisibilityComponent"}

\* self.project_name
project_name == "proj"

\* the "Transform Data" dict of a TransformComponent (absent when every part is
\* default)
TransformComponent(o3de_transform, needs_nonuniform, parent_entity_id) ==
    LET euler == QuaternionToEuler(o3de_transform.rotation)
        has_translation == AnyBeyondTolerance(o3de_transform.position)
        has_rotation == AnyBeyondTolerance(euler)
        has_scale == ~needs_nonuniform /\ Abs(o3de_transform.scale[1] - One) > Tolerance
        d1 == PutIf(EmptyDict, has_translation, "Translate", o3de_transform.position)
        d2 == PutIf(d1, has_rotation, "Rotate", euler)
        d3 == PutIf(d2, has_scale, "Scale", o3de_transform.scale[1])
        base == [type |-> "TransformComponent", ParentEntity |-> parent_entity_id]
    IN  PutIf(base, has_translation \/ has_rotation \/ has_scale, "TransformData", d3)

\* the "Parent Entity" patch and, for a non-zero position, the three Translate
\* patches of an instance
InstancePatches(o3de_transform, parent_entity_id) ==
    LET prefix == "/ContainerEntity/Components/TransformComponent/" IN
    << [op |-> "replace", path |-> prefix \o "Parent Entity",
        value |-> "../" \o parent_entity_id] >>
    \o (IF AnyBeyondTolerance(o3de_transform.position)
        THEN [i \in 1..3 |->
                [op |-> "replace",
                 path |-> prefix \o "Transform Data/Translate/" \o ToString(i - 1),
                 value |-> o3de_transform.position[i]]]
        ELSE <<>>)

\* IntegratedAssetProcessor._create_nested_prefab_instance
CreateNestedPrefabInstance(go, prefab_path, parent_entity_id) ==
    [Source |-> project_name \o "/prefabs/" \o prefab_path.name,
     Patches |-> InstancePatches(IntegratedConvert(go.transform).transform,
                                 parent_entity_id)]

\* the materials dict of EditorMaterialComponent: slot "{idx}" for every material
\* guid that material_mapping resolves
RECURSIVE MaterialsConfig(_, _, _, _)
MaterialsConfig(material_guids, material_mapping, i, acc) ==
    IF i > Len(material_guids) THEN acc
    ELSE MaterialsConfig(material_guids, material_mapping, i + 1,
            IF material_guids[i] \in DOMAIN material_mapping
            THEN Put(acc, "{" \o ToString(i - 1) \o "}",
                     [assetHint |-> material_mapping[material_guids[i]]])
            ELSE acc)

\* the entity before its physics components and children: editor components,
\* transform, non-uniform scale, mesh and materials
EntityBody(go, entity_id, parent_entity_id, material_mapping, mesh_mapping) ==
    LET conv == IntegratedConvert(go.transform)
        c0 == [k \in EditorComponents |-> [type |-> k]]
        c1 == Put(c0, "TransformComponent",
                  TransformComponent(conv.transform, conv.needs_nonuniform,
                                     parent_entity_id))
        c2 == PutIf(c1, conv.needs_nonuniform, "EditorNonUniformScaleComponent",
                    [type |-> "EditorNonUniformScaleComponent",
                     Scale |-> conv.transform.scale])
        c3 == PutIf(c2, go.mesh_guid # None /\ go.mesh_guid \in DOMAIN mesh_mapping,
                    "AZ::Render::EditorMeshComponent",
                    [type |-> "AZ::Render::EditorMeshComponent",
                     assetHint |-> mesh_mapping[go.mesh_guid]])
        mats == MaterialsConfig(go.material_guids, material_mapping, 1, EmptyDict)
        c4 == PutIf(c3, mats # EmptyDict, "EditorMaterialComponent",
                    [type |-> "EditorMaterialComponent", materials |-> mats])
    IN  [Id |-> entity_id, Name |-> go.name, Components |-> c4]

RECURSIVE CreateEntityRecursive(_, _, _, _, _)
RECURSIVE CreateChildren(_, _, _, _, _, _, _)

\* one turn of the children loop: the child's id joins child_order unless the
\* walk below it overflowed
ChildDone(children_ids, i, env, entity_id, child_order, fuel, r) ==
    CreateChildren(children_ids, i + 1, env, entity_id, r.st,
                   IF r.st.overflow THEN child_order ELSE Append(child_order, r.id),
                   fuel)

\* the loop over go.children_ids of _create_entity_recursive from position i on
CreateChildren(children_ids, i, env, entity_id, st, child_order, fuel) ==
    IF i > Len(children_ids) \/ st.overflow
    THEN [st |-> st, child_order |-> child_order]
    ELSE IF children_ids[i] \in DOMAIN env.game_objects
    THEN ChildDone(children_ids, i, env, entity_id, child_order, fuel,
                   CreateEntityRecursive(env.game_objects[children_ids[i]], env,
                                         entity_id, st, fuel))
    ELSE CreateChildren(children_ids, i + 1, env, entity_id, st, child_order, fuel)

\* the end of _create_entity_recursive: the sort component over the children and
\* the collider children, and the entity stored under its id
StoreEntity(entity_id, entity, child_order, st) ==
    IF st.overflow THEN [st |-> st, id |-> None]
    ELSE [st |-> [st EXCEPT !.entities =
                    Put(@, entity_id,
                        [entity EXCEPT !.Components =
                           PutIf(@, child_order # <<>>, "EditorEntitySortComponent",
                                 [type |-> "EditorEntitySortComponent",
                                  ChildEntityOrder |-> child_order])])],
          id |-> entity_id]

\* mutant: the collider sub-entities are listed before the GameObject children
WalkChildrenCollidersFirst(go, env, entity_id, phys, kids) ==
    StoreEntity(entity_id, phys.entity, phys.child_entity_ids \o kids.child_order,
                kids.st)

\* the children of go walked after its physics components are made
WalkChildren(go, env, entity_id, phys, kids) ==
    StoreEntity(entity_id, phys.entity, kids.child_order \o phys.child_entity_ids,
                kids.st)

\* the plain-entity part of _create_entity_recursive, phys being what
\* _create_physx_components returned
AfterPhysx(go, env, entity_id, phys, fuel) ==
    WalkChildren(go, env, entity_id, phys,
                 CreateChildren(go.children_ids, 1, env, entity_id, phys.st, <<>>,
                                fuel - 1))

\* the plain-entity part of _create_entity_recursive from the id on
CreatePlainEntity(go, env, parent_entity_id, st, entity_id, fuel) ==
    AfterPhysx(go, env, entity_id,
               CreatePhysxComponents(
                   go,
                   EntityBody(go, entity_id, parent_entity_id,
                              env.material_mapping, env.mesh_mapping),
                   env.mesh_mapping,
                   [st EXCEPT !.entity_id_counter = @ + 1,
                              !.entity_id_map = Put(@, go.file_id, entity_id)]),
               fuel)

\* IntegratedAssetProcessor._create_entity_recursive.  fuel is the recursion depth
\* left: a walk deeper than the number of GameObjects repeats a node and never
\* returns (Python raises RecursionError), which st.overflow records.
CreateEntityRecursive(go, env, parent_entity_id, st, fuel) ==
    IF fuel = 0 THEN [st |-> [st EXCEPT !.overflow = TRUE], id |-> None]
    ELSE
      LET is_instance == go.is_prefab_instance /\ go.prefab_source_guid \notin {None, ""}
          instance_id == InstanceIdOf(st.entity_id_counter)
          resolved == /\ is_instance
                      /\ go.prefab_source_guid \in DOMAIN env.guid_to_path
                      /\ env.guid_to_path[go.prefab_source_guid].suffix = ".prefab"
      IN
      IF resolved
      THEN [st |-> [st EXCEPT !.entity_id_counter = @ + 1,
                              !.instances =
                      Put(@, instance_id,
                          CreateNestedPrefabInstance(go,
                              env.guid_to_path[go.prefab_source_guid],
                              parent_entity_id))],
            id |-> instance_id \o "/ContainerEntity"]
      ELSE IF is_instance
      THEN CreatePlainEntity(go, env, parent_entity_id,
                             [st EXCEPT !.entity_id_counter = @ + 1],
                             EntityIdOf(st.entity_id_counter + 2), fuel)
      ELSE CreatePlainEntity(go, env, parent_entity_id, st,
                             EntityIdOf(st.entity_id_counter + 1), fuel)

-----------------------------------------------------------------------------
(* process_prefab after parsing (integrated pipeline)                      *)

\* self.entity_id_counter = 1000000 (IntegratedAssetProcessor.__init__)
InitialEntityCounter == 1000000

\* the file extensions AssetDatabase treats as meshes
mesh_extensions == {".fbx", ".obj", ".dae", ".blend", ".3ds", ".max", ".ma", ".mb"}

\* the keys of order, in order, whose GameObject has no parent
RootIds(order, gos) == SelectSeq(order, LAMBDA k : gos[k].parent_id = None)

\* _process_material as far as the mapping goes: the asset hint of a material guid
\* that resolves to a parseable .mat file
MaterialMapping(gos, paths) ==
    LET guids == {g \in UNION {{gos[k].material_guids[i] : i \in DOMAIN gos[k].material_guids}
                               : k \in DOMAIN gos} :
                    /\ g \in DOMAIN paths
                    /\ paths[g].suffix = ".mat" /\ paths[g].parses}
    IN  [g \in guids |-> project_name \o "/materials/" \o paths[g].stem \o ".azmaterial"]

\* _process_mesh as far as the mapping goes: the asset hint <<stem, suffix>> of a
\* mesh guid that resolves to a mesh file
MeshMapping(gos, paths) ==
    LET guids == {g \in {gos[k].mesh_guid : k \in DOMAIN gos} :
                    /\ g \in DOMAIN paths
                    /\ paths[g].suffix \in mesh_extensions}
    IN  [g \in guids |-> <<project_name \o "/meshes/" \o paths[g].name, ".azmodel">>]

\* what random.randint(1000000000000000, 9999999999999999) can return: the two
\* ends of its range stand for all of it
ComponentIds == {"1000000000000000", "9999999999999999"}

\* IntegratedAssetProcessor._create_container_entity
CreateContainerEntity(root_go) ==
    [Id |-> "ContainerEntity", Name |-> root_go.name, ParentEntity |-> "",
     ChildEntityOrder |-> <<>>]

\* the end of process_prefab: the document of _create_o3de_prefab written, or
\* the failure reported, r being what the walk from the root returned
WritePrefab(root_go, r) ==
    /\ entity_id_counter' = r.st.entity_id_counter
    /\ IF r.st.overflow
       THEN result' = FALSE /\ UNCHANGED <<prefab_data, component_id>>
       ELSE /\ result' = TRUE
            /\ component_id' \in ComponentIds
            /\ prefab_data' =
                 [ContainerEntity |->
                      [CreateContainerEntity(root_go) EXCEPT
                           !.ChildEntityOrder = <<r.id>>],
                  Entities |-> r.st.entities,
                  Instances |-> r.st.instances]

\* AssetDatabase.texture_extensions
texture_extensions ==
    {".png", ".jpg", ".jpeg", ".tga", ".tiff", ".bmp", ".psd", ".exr", ".hdr"}

\* what subprocess.run of Blender can do: exit with 0, exit with another code,
\* run past the timeout of 120 s, fail because the executable is not there, or
\* fail with another OSError (PermissionError, ...)
BakeOutcomes == {"success", "nonzero", "timeout", "not_found", "os_error"}

\* bake_fbx_with_blender: what it returns and logs, or that it raised (the
\* exception is none of the two it catches)
bake_fbx_with_blender(outcome) ==
    CASE outcome = "success" -> [raised |-> FALSE, ok |-> TRUE, lines |-> {}]
      [] outcome = "nonzero" ->
           [raised |-> FALSE, ok |-> FALSE, lines |-> {LogLine("[Blender] stderr", "")}]
      [] outcome = "timeout" ->
           [raised |-> FALSE, ok |-> FALSE,
            lines |-> {LogLine("[Blender] Timed out after 120 s", "")}]
      [] outcome = "not_found" ->
           [raised |-> FALSE, ok |-> FALSE,
            lines |-> {LogLine("[Blender] Executable not found", "")}]
      [] outcome = "os_error" -> [raised |-> TRUE, ok |-> FALSE, lines |-> {}]

\* the caches and output folders of the processor while process_prefab runs,
\* and the lines of the mesh processing
AssetState ==
    [processed_materials |-> processed_materials,
     processed_textures |-> processed_textures,
     processed_meshes |-> processed_meshes,
     output_files |-> output_files, copies |-> copies, lines |-> {}]

\* the state after the asset of guid was written to output file f
AssetWritten(a, guid, f) ==
    [a EXCEPT !.output_files = @ \cup {f},
              !.copies = Put(@, guid, (IF guid \in DOMAIN @ THEN @[guid] ELSE 0) + 1)]

\* IntegratedAssetProcessor._process_texture
ProcessTexture(texture_guid, paths, a) ==
    IF texture_guid \in DOMAIN a.processed_textures THEN a
    ELSE IF \/ texture_guid \notin DOMAIN paths
            \/ paths[texture_guid].suffix \notin texture_extensions
    THEN a
    ELSE LET f == "Textures/" \o paths[texture_guid].name
             b == IF f \in a.output_files THEN a ELSE AssetWritten(a, texture_guid, f)
         IN  [b EXCEPT !.processed_textures = Put(@, texture_guid, f)]

\* the loop over the textures of a material in _process_material
RECURSIVE ProcessTextures(_, _, _, _)
ProcessTextures(texture_guids, i, paths, a) ==
    IF i > Len(texture_guids) THEN a
    ELSE ProcessTextures(texture_guids, i + 1, paths,
                         ProcessTexture(texture_guids[i], paths, a))

\* the texture guids parse_material extracts from a material file
TexturesOf(path) == IF "textures" \in DOMAIN path THEN path.textures ELSE <<>>

\* IntegratedAssetProcessor._process_material
ProcessMaterial(material_guid, paths, a) ==
    IF material_guid \in DOMAIN a.processed_materials THEN a
    ELSE IF material_guid \notin DOMAIN paths THEN a
    ELSE IF ~(paths[material_guid].suffix = ".mat" /\ paths[material_guid].parses)
    THEN a
    ELSE LET stem == paths[material_guid].stem
             b == ProcessTextures(TexturesOf(paths[material_guid]), 1, paths, a)
         IN  [AssetWritten(b, material_guid, "Materials/" \o stem \o ".material")
                EXCEPT !.processed_materials =
                    Put(@, material_guid,
                        project_name \o "/materials/" \o stem \o ".azmaterial")]

\* the end of the try block of _process_mesh: the hint recorded
MeshRecorded(a, mesh_guid, name) ==
    [a EXCEPT !.processed_meshes =
        Put(@, mesh_guid, <<project_name \o "/meshes/" \o name, ".azmodel">>)]

\* the Blender branch of _process_mesh: the bake, the raw copy when it reports
\* a failure, and the except clause when it raises
BakeMesh(mesh_guid, name, a, outcome) ==
    LET f == "Meshes/" \o name
        baked == bake_fbx_with_blender(outcome)
    IN  IF baked.raised
        THEN [a EXCEPT !.lines = @ \cup {LogLine("Failed to process mesh", name)}]
        ELSE [MeshRecorded(AssetWritten(a, mesh_guid, f), mesh_guid, name)
                EXCEPT !.lines = @ \cup baked.lines
                          \cup (IF baked.ok THEN {}
                                ELSE {LogLine("Bake failed - raw copy used", name)})]

\* mutant: the mesh is copied again whenever a prefab references it
ProcessMeshCopiedEveryTime(mesh_guid, paths, a, outcome) ==
    IF \/ mesh_guid \notin DOMAIN paths
       \/ paths[mesh_guid].suffix \notin mesh_extensions
    THEN a
    ELSE MeshRecorded(AssetWritten(a, mesh_guid, "Meshes/" \o paths[mesh_guid].name),
                      mesh_guid, paths[mesh_guid].name)

\* IntegratedAssetProcessor._process_mesh; outcome is what the Blender call does
\* if it is made
ProcessMesh(mesh_guid, paths, a, outcome) ==
    IF mesh_guid \in DOMAIN a.processed_meshes THEN a
    ELSE IF \/ mesh_guid \notin DOMAIN paths
            \/ paths[mesh_guid].suffix \notin mesh_extensions
    THEN a
    ELSE LET name == paths[mesh_guid].name IN
         IF ("Meshes/" \o name) \in a.output_files
         THEN MeshRecorded(a, mesh_guid, name)
         ELSE IF blender_path # None /\ paths[mesh_guid].suffix = ".fbx"
         THEN BakeMesh(mesh_guid, name, a, outcome)
         ELSE MeshRecorded(AssetWritten(a, mesh_guid, "Meshes/" \o name), mesh_guid, name)

\* the two loops of process_prefab over all_material_guids and all_mesh_guids
RECURSIVE ProcessMaterials(_, _, _)
ProcessMaterials(guids, paths, a) ==
    IF guids = {} THEN a
    ELSE LET g == CHOOSE x \in guids : TRUE
         IN  ProcessMaterials(guids \ {g}, paths, ProcessMaterial(g, paths, a))

RECURSIVE ProcessMeshes(_, _, _, _)
ProcessMeshes(guids, paths, a, outcomes) ==
    IF guids = {} THEN a
    ELSE LET g == CHOOSE x \in guids : TRUE
         IN  ProcessMeshes(guids \ {g}, paths, ProcessMesh(g, paths, a, outcomes[g]),
                           outcomes)

\* what the Blender calls of one process_prefab may do: nothing to choose
\* without Blender
BakeChoices(guids) ==
    IF blender_path = None THEN {[g \in guids |-> "success"]}
    ELSE [guids -> BakeOutcomes]

\* d restricted to the keys in ks
Restrict(d, ks) == [k \in (DOMAIN d) \cap ks |-> d[k]]

\* the environment of the walk: the parsed GameObjects and the asset mappings
WalkEnv(gos, paths) ==
    [game_objects |-> gos, guid_to_path |-> paths,
     material_mapping |-> MaterialMapping(gos, paths),
     mesh_mapping |-> MeshMapping(gos, paths)]

\* the material guids the GameObjects reference (all_material_guids; the build
\* pass stores no empty guid)
AllMaterialGuids(gos) ==
    UNION {{gos[k].material_guids[i] : i \in DOMAIN gos[k].material_guids} :
             k \in DOMAIN gos}

\* the mesh guids the GameObjects reference (all_mesh_guids)
AllMeshGuids(gos) == {gos[k].mesh_guid : k \in DOMAIN gos} \ {None, ""}

\* sum(len(go.colliders) for go in game_objects.values()) over the keys ks
RECURSIVE ColliderTotal(_, _)
ColliderTotal(gos, ks) ==
    IF ks = {} THEN 0
    ELSE LET k == CHOOSE x \in ks : TRUE
         IN  Len(gos[k].colliders) + ColliderTotal(gos, ks \ {k})

\* what _process_material reports for the guids: a guid the index does not
\* know, a file that is no material or does not parse
MaterialLines(guids, paths) ==
    {LogLine("Material GUID not found", g) : g \in {h \in guids : h \notin DOMAIN paths}}
    \cup {LogLine("Failed to parse material", "") :
            g \in {h \in guids : /\ h \in DOMAIN paths
                                 /\ ~(paths[h].suffix = ".mat" /\ paths[h].parses)}}

\* the counts process_prefab reports once it has a root
FoundLines(gos) ==
    {LogLine("Found GameObjects", ToString(Cardinality(DOMAIN gos))),
     LogLine("Found unique material references",
             ToString(Cardinality(AllMaterialGuids(gos)))),
     LogLine("Found unique mesh references", ToString(Cardinality(AllMeshGuids(gos)))),
     LogLine("Found colliders", ToString(ColliderTotal(gos, DOMAIN gos))),
     LogLine("Found rigidbodies",
             ToString(Cardinality({k \in DOMAIN gos : gos[k].has_rigidbody})))}

\* what process_prefab and the calls it makes report for one file; ok is what
\* process_prefab returns
ProcessPrefabLines(gos, order, paths, ok) ==
    IF order = <<>> THEN {LogLine("No GameObjects found in prefab", "")}
    ELSE IF RootIds(order, gos) = <<>> THEN {LogLine("No root GameObject found", "")}
    ELSE FoundLines(gos)
         \cup MaterialLines(AllMaterialGuids(gos), paths)
         \cup (IF Len(RootIds(order, gos)) > 1
               THEN {LogLine("Multiple root GameObjects found, using first one",
                             ToString(Len(RootIds(order, gos))))}
               ELSE {})
         \cup (IF ok THEN {LogLine("Created O3DE prefab", "")}
               ELSE {LogLine("Error processing prefab",
                             "maximum recursion depth exceeded")})

\* the assets of the prefab processed: the materials with their textures, then
\* the meshes
ProcessAssets(gos, paths, outcomes) ==
    ProcessMeshes(AllMeshGuids(gos), paths,
                  ProcessMaterials(AllMaterialGuids(gos), paths, AssetState),
                  outcomes)

\* the environment of the walk after the assets were processed: the mappings
\* hold the guids of the prefab whose processing returned a hint
ProcessedEnv(gos, paths, a) ==
    [game_objects |-> gos, guid_to_path |-> paths,
     material_mapping |-> Restrict(a.processed_materials, AllMaterialGuids(gos)),
     mesh_mapping |-> Restrict(a.processed_meshes, AllMeshGuids(gos))]

\* process_prefab once it has a root: the assets processed, the document
\* written, the caches and folders as the processing left them
ProcessFromRoot(root_go, a) ==
    /\ WritePrefab(root_go,
                   CreateEntityRecursive(root_go,
                                         ProcessedEnv(game_objects, guid_to_path, a),
                                         "ContainerEntity",
                                         SerializerState(entity_id_counter),
                                         Len(go_order)))
    /\ processed_materials' = a.processed_materials
    /\ processed_textures' = a.processed_textures
    /\ processed_meshes' = a.processed_meshes
    /\ output_files' = a.output_files
    /\ copies' = a.copies
    /\ log' = log \cup a.lines
                  \cup ProcessPrefabLines(game_objects, go_order, guid_to_path, result')

\* IntegratedAssetProcessor.process_prefab from "if not game_objects" on, with
\* _create_o3de_prefab
IntegratedCreatePrefab ==
    /\ pc = "built"
    /\ pipeline = "integrated"
    /\ pc' = "done"
    /\ LET roots == RootIds(go_order, game_objects) IN
       IF go_order = <<>> \/ roots = <<>>
       THEN /\ result' = FALSE
            /\ log' = log \cup ProcessPrefabLines(game_objects, go_order,
                                                  guid_to_path, FALSE)
            /\ UNCHANGED <<entity_id_counter, prefab_data, component_id,
                           processed_materials, processed_textures, processed_meshes,
                           output_files, copies>>
       ELSE \E outcomes \in BakeChoices(AllMeshGuids(game_objects)) :
               ProcessFromRoot(game_objects[roots[1]],
                               ProcessAssets(game_objects, guid_to_path, outcomes))
    /\ UNCHANGED <<convertVars, graphVars, sceneVars, prefab_dirs, prefab_files,
                   success_count, returned, blender_path, guiVars>>

-----------------------------------------------------------------------------
(* One GameObject with colliders and an optional rigidbody, as                *)
(* _build_hierarchy leaves it (lines 687-701), serialized                    *)

\* the most colliders on the GameObject
MaxColliders == 3

ColliderSamples ==
    {[type |-> "BoxCollider", is_trigger |-> FALSE, center |-> <<0, 0, 0>>,
      size |-> <<2 * One, 2 * One, 2 * One>>],
     [type |-> "BoxCollider", is_trigger |-> TRUE, center |-> <<One, 2 * One, 3 * One>>,
      size |-> <<One, 2 * One, 3 * One>>],
     [type |-> "BoxCollider", is_trigger |-> FALSE,
      center |-> <<Tolerance \div 2, 0, 0>>, size |-> <<2 * One, 2 * One, 2 * One>>],
     [type |-> "SphereCollider", is_trigger |-> FALSE, center |-> <<0, One, 0>>,
      radius |-> One],
     [type |-> "CapsuleCollider", is_trigger |-> FALSE, center |-> <<0, 0, 0>>,
      radius |-> One, height |-> 2 * One, direction |-> 1],
     [type |-> "MeshCollider", is_trigger |-> FALSE, center |-> <<0, 0, 0>>,
      mesh_guid |-> "", convex |-> FALSE]}

ColliderLists == UNION {[1..n -> ColliderSamples] : n \in 0..MaxColliders}

\* every Unity constraint bitmask (bit 1 is unused by Unity)
ConstraintMasks == 0..127

RigidbodyData(constraints) == [DefaultRigidbodyData EXCEPT !.constraints = constraints]

\* the GameObject with the components assigned
PhysicsGameObject(colliders, has_rigidbody, constraints) ==
    [GameObject("g1", "Rock", Transform(<<One, 2 * One, 3 * One>>, <<0, 0, 0, One>>,
                                        <<One, One, One>>))
        EXCEPT !.mesh_guid = "guid_mesh",
               !.colliders = colliders,
               !.has_rigidbody = has_rigidbody,
               !.rigidbody_data = IF has_rigidbody THEN RigidbodyData(constraints)
                                  ELSE NoData]

\* the positions of the GameObject: the scenario's, the origin, and one within
\* the tolerance of the origin
PhysicsPositions ==
    {<<One, 2 * One, 3 * One>>, <<0, 0, 0>>, <<Tolerance \div 2, 0, 0>>}

\* the asset index of the runs
AssetIndex ==
    [g \in {"guid_mesh", "guid_mat", "guid_prefab"} |->
        CASE g = "guid_mesh" ->
               [name |-> "rock.fbx", stem |-> "rock", suffix |-> ".fbx", parses |-> FALSE]
          [] g = "guid_mat" ->
               [name |-> "stone.mat", stem |-> "stone", suffix |-> ".mat", parses |-> TRUE]
          [] g = "guid_prefab" ->
               [name |-> "Tree.prefab", stem |-> "Tree", suffix |-> ".prefab",
                parses |-> FALSE]]

PhysxInit ==
    /\ pc = "built"
    /\ pipeline = "integrated"
    /\ \E go \in {PhysicsGameObject(c, FALSE, 0) : c \in ColliderLists}
              \cup {PhysicsGameObject(c, TRUE, m) : c \in ColliderLists, m \in {0, 4}}
              \cup {PhysicsGameObject(c, TRUE, m) :
                        c \in {cl \in ColliderLists : Len(cl) <= 1}, m \in ConstraintMasks} :
       \E position \in PhysicsPositions :
          game_objects = [k \in {"g1"} |-> [go EXCEPT !.transform.position = position]]
    /\ file = <<>>
    /\ go_order = <<"g1">>
    /\ transform_map = [k \in {"t1"} |-> "g1"]
    /\ guid_to_path = AssetIndex
    /\ entity_id_counter = InitialEntityCounter
    /\ prefab_data = NoData
    /\ result = FALSE
    /\ component_id = None
    /\ ConvertIdle
    /\ SceneIdle
    /\ RunIdle

PhysxNext == IntegratedCreatePrefab

SpecPhysx == PhysxInit /\ [][PhysxNext]_vars

-----------------------------------------------------------------------------
(* Parsing: the blocks of a Unity YAML file                                *)

\* del d[k]
Remove(d, k) == [x \in (DOMAIN d) \ {k} |-> d[x]]

\* the insertion order of a dict's keys after d[k] = v
OrderPut(order, k) ==
    IF \E i \in DOMAIN order : order[i] = k THEN order ELSE Append(order, k)

\* the insertion order of a dict's keys after d.pop(k)
OrderPop(order, k) == SelectSeq(order, LAMBDA x : x # k)

\* the elements of a list
Range(seq) == {seq[i] : i \in DOMAIN seq}

\* a "Transform:" block: its anchor, the owning GameObject's anchor, the parent's
\* Transform anchor ("0" for none), the children's Transform anchors, the values
TransformBlock(anchor, m_GameObject, m_Father, m_Children, transform) ==
    [kind |-> "Transform", anchor |-> anchor, m_GameObject |-> m_GameObject,
     m_Father |-> m_Father, m_Children |-> m_Children, transform |-> transform]

\* a "GameObject:" block: m_Component is the fileID of its first component ("" if
\* it lists none), m_CorrespondingSourceObject whether that reference has a
\* fileID, m_PrefabAsset its guid ("" if none), m_PrefabInstance a fileID
GameObjectBlock(anchor, m_Name, m_Component, m_CorrespondingSourceObject, m_PrefabAsset, m_PrefabInstance) ==
    [kind |-> "GameObject", anchor |-> anchor, m_Name |-> m_Name,
     m_Component |-> m_Component,
     m_CorrespondingSourceObject |-> m_CorrespondingSourceObject,
     m_PrefabAsset |-> m_PrefabAsset, m_PrefabInstance |-> m_PrefabInstance]

\* a "PrefabInstance:" block: the source prefab's guid, m_TransformParent's
\* fileID, and from the modification list the m_Name value (None when no
\* modification sets it) and the local position
PrefabInstanceBlock(anchor, guid, m_TransformParent, m_Name, position) ==
    [kind |-> "PrefabInstance", anchor |-> anchor, guid |-> guid,
     m_TransformParent |-> m_TransformParent, m_Name |-> m_Name,
     position |-> position]

\* a component block of the integrated pipeline: type is MeshFilter, MeshRenderer,
\* Rigidbody or one of the collider types, data what the build pass reads of it
ComponentBlock(anchor, type, m_GameObject, data) ==
    [kind |-> "Component", anchor |-> anchor, type |-> type,
     m_GameObject |-> m_GameObject, data |-> data]

\* what a parse has collected so far
ParserState ==
    [game_objects |-> EmptyDict, go_order |-> <<>>, transform_map |-> EmptyDict,
     components_data |-> <<>>, prefab_instances |-> <<>>, raised |-> FALSE]

\* the parent and children anchors of a Transform block stored on its GameObject
WithLinks(go, b) ==
    [go EXCEPT !.parent_id = IF b.m_Father # "0" THEN b.m_Father ELSE @,
               !.children_ids = @ \o SelectSeq(b.m_Children,
                                               LAMBDA c : c \notin {"", "0"})]

\* the GameObject a Transform block creates or updates
TransformOwner(gos, b) ==
    IF b.m_GameObject \in DOMAIN gos
    THEN [gos[b.m_GameObject] EXCEPT !.transform = b.transform]
    ELSE GameObject(b.m_GameObject, "", b.transform)

\* _parse_transform (the same code in the three pipelines)
ParseTransform(ps, b) ==
    IF b.m_GameObject \in {"", "0"} THEN ps
    ELSE [ps EXCEPT
            !.transform_map = Put(@, b.anchor, b.m_GameObject),
            !.go_order = OrderPut(@, b.m_GameObject),
            !.game_objects = Put(@, b.m_GameObject,
                                 WithLinks(TransformOwner(@, b), b))]

\* game_objects[file_id] = game_objects.pop(old_go_id), go being the popped
\* object with its fields set
PopRename(ps, old_go_id, go) ==
    [ps EXCEPT !.game_objects = Put(Remove(@, old_go_id), go.file_id, go),
               !.go_order = OrderPut(OrderPop(@, old_go_id), go.file_id)]

\* the "if transform_id and transform_id in transform_map" part of
\* IntegratedAssetProcessor._parse_game_object
IntegratedRename(ps, b) ==
    IF b.m_Component # "" /\ b.m_Component \in DOMAIN ps.transform_map
    THEN [(IF ps.transform_map[b.m_Component] \in DOMAIN ps.game_objects
           THEN PopRename(ps, ps.transform_map[b.m_Component],
                          [ps.game_objects[ps.transform_map[b.m_Component]]
                              EXCEPT !.file_id = b.anchor, !.name = b.m_Name])
           ELSE ps)
          EXCEPT !.transform_map = Put(@, b.m_Component, b.anchor)]
    ELSE ps

\* the "if file_id in game_objects ... else ..." part of _parse_game_object in
\* the integrated and the prefab pipeline
NameOrCreate(ps, b) ==
    [ps EXCEPT !.go_order = OrderPut(@, b.anchor),
               !.game_objects =
                   Put(@, b.anchor,
                       IF b.anchor \in DOMAIN @
                       THEN [@[b.anchor] EXCEPT !.name = b.m_Name]
                       ELSE GameObject(b.anchor, b.m_Name, DefaultTransform))]

\* IntegratedAssetProcessor._parse_game_object
IntegratedParseGameObject(ps, b) == NameOrCreate(IntegratedRename(ps, b), b)

\* UnityPrefabConverter._parse_game_object
PrefabParseGameObject(ps, b) == NameOrCreate(ps, b)

\* is_prefab of UnitySceneConverter._parse_game_object
IsPrefab(b) == b.m_CorrespondingSourceObject.fileID \notin {"", "0"}

\* prefab_guid of UnitySceneConverter._parse_game_object, by its three methods;
\* prefab_instance_guids maps the anchors of the PrefabInstance blocks to guids
ScenePrefabGuid(b, prefab_instance_guids) ==
    IF b.m_PrefabAsset # "" THEN b.m_PrefabAsset
    ELSE IF b.m_PrefabInstance # "" /\ b.m_PrefabInstance \in DOMAIN prefab_instance_guids
    THEN prefab_instance_guids[b.m_PrefabInstance]
    ELSE b.m_CorrespondingSourceObject.guid

\* the name and prefab fields UnitySceneConverter._parse_game_object sets
SceneFields(go, b, prefab_instance_guids) ==
    [go EXCEPT !.name = b.m_Name,
               !.is_prefab_instance = IsPrefab(b),
               !.prefab_source_guid =
                   IF IsPrefab(b) THEN ScenePrefabGuid(b, prefab_instance_guids)
                   ELSE None,
               !.prefab_name = IF IsPrefab(b) THEN b.m_Name ELSE None]

\* the "if transform_id and transform_id in self.transform_to_gameobject" part
\* of UnitySceneConverter._parse_game_object
SceneRename(ps, b, prefab_instance_guids) ==
    IF b.m_Component # "" /\ b.m_Component \in DOMAIN ps.transform_map
    THEN [(IF ps.transform_map[b.m_Component] \in DOMAIN ps.game_objects
           THEN PopRename(ps, ps.transform_map[b.m_Component],
                          SceneFields([ps.game_objects[ps.transform_map[b.m_Component]]
                                          EXCEPT !.file_id = b.anchor],
                                      b, prefab_instance_guids))
           ELSE ps)
          EXCEPT !.transform_map = Put(@, b.m_Component, b.anchor)]
    ELSE ps

\* the "if file_id in self.game_objects ... else ..." part of
\* UnitySceneConverter._parse_game_object (self.transforms is never filled, so
\* a new GameObject gets Transform())
SceneNameOrCreate(ps, b, prefab_instance_guids) ==
    [ps EXCEPT !.go_order = OrderPut(@, b.anchor),
               !.game_objects =
                   Put(@, b.anchor,
                       SceneFields(IF b.anchor \in DOMAIN @ THEN @[b.anchor]
                                   ELSE GameObject(b.anchor, b.m_Name, DefaultTransform),
                                   b, prefab_instance_guids))]

\* UnitySceneConverter._parse_game_object
SceneParseGameObject(ps, b, prefab_instance_guids) ==
    SceneNameOrCreate(SceneRename(ps, b, prefab_instance_guids), b,
                      prefab_instance_guids)

\* IntegratedAssetProcessor._parse_prefab_instance_in_prefab
ParsePrefabInstanceInPrefab(ps, b) ==
    IF b.guid = "" THEN ps
    ELSE [ps EXCEPT
            !.go_order = OrderPut(@, b.anchor),
            !.game_objects =
                Put(@, b.anchor,
                    [GameObject(b.anchor,
                                IF b.m_Name = None THEN "PrefabInstance" ELSE b.m_Name,
                                Transform(b.position, <<0, 0, 0, One>>,
                                          <<One, One, One>>))
                       EXCEPT !.is_prefab_instance = TRUE,
                              !.prefab_source_guid = b.guid,
                              !.parent_id = IF b.m_TransformParent \notin {"", "0"}
                                            THEN b.m_TransformParent ELSE None])]

\* UnitySceneConverter._parse_prefab_instance: the instance_data appended
SceneParsePrefabInstance(ps, b) ==
    IF b.guid = "" THEN ps
    ELSE [ps EXCEPT !.prefab_instances =
            Append(@, [guid |-> b.guid, name |-> b.m_Name, position |-> b.position,
                       rotation |-> <<0, 0, 0, One>>, scale |-> <<One, One, One>>,
                       parent_fileID |-> IF b.m_TransformParent # "0"
                                         THEN b.m_TransformParent ELSE None])]

\* the first pass of parse_unity_scene: anchor -> guid of the PrefabInstance
\* blocks that name a guid
PrefabInstanceGuids(blocks) ==
    [a \in {blocks[i].anchor : i \in {j \in DOMAIN blocks :
                                        /\ blocks[j].kind = "PrefabInstance"
                                        /\ blocks[j].guid # ""}} |->
        LET i == CHOOSE j \in DOMAIN blocks :
                     blocks[j].kind = "PrefabInstance" /\ blocks[j].anchor = a
        IN  blocks[i].guid]

\* one turn of the loop over the documents of _parse_unity_prefab (integrated)
IntegratedParseBlock(ps, b) ==
    CASE b.kind = "Transform" -> ParseTransform(ps, b)
      [] b.kind = "GameObject" -> IntegratedParseGameObject(ps, b)
      [] b.kind = "PrefabInstance" -> ParsePrefabInstanceInPrefab(ps, b)
      [] b.kind = "Component" -> [ps EXCEPT !.components_data = Append(@, b)]
      [] OTHER -> ps

\* one turn of the loop over the documents of parse_unity_scene
SceneParseBlock(ps, b, prefab_instance_guids) ==
    CASE b.kind = "Transform" -> ParseTransform(ps, b)
      [] b.kind = "GameObject" -> SceneParseGameObject(ps, b, prefab_instance_guids)
      [] b.kind = "PrefabInstance" -> SceneParsePrefabInstance(ps, b)
      [] OTHER -> ps

\* one turn of the loop over the documents of parse_unity_prefab (prefab
\* pipeline); any other block only lands in components_data
PrefabParseBlock(ps, b) ==
    CASE b.kind = "Transform" -> ParseTransform(ps, b)
      [] b.kind = "GameObject" -> PrefabParseGameObject(ps, b)
      [] OTHER -> ps

\* the loop over the documents of a file from block i on, in pipeline pl; a
\* "Malformed" block is valid YAML of the wrong shape (a scalar, or a Transform
\* that is no mapping): the handler raises and the loop is left, ps.raised set
RECURSIVE ParseBlocks(_, _, _, _, _)
ParseBlocks(blocks, i, ps, pl, prefab_instance_guids) ==
    IF i > Len(blocks) THEN ps
    ELSE IF blocks[i].kind = "Malformed" THEN [ps EXCEPT !.raised = TRUE]
    ELSE ParseBlocks(blocks, i + 1,
                     CASE pl = "integrated" -> IntegratedParseBlock(ps, blocks[i])
                       [] pl = "scene" ->
                            SceneParseBlock(ps, blocks[i], prefab_instance_guids)
                       [] pl = "prefab" -> PrefabParseBlock(ps, blocks[i]),
                     pl, prefab_instance_guids)

-----------------------------------------------------------------------------
(* SceneGraphBuilder: _build_hierarchy                                     *)

\* a Python value that is truthy where a string or None is expected
Truthy(x) == x \notin {None, ""}

\* go.parent_id after the first loop of _build_hierarchy
ResolvedParent(parent_id, tmap) ==
    IF Truthy(parent_id) /\ parent_id \in DOMAIN tmap
    THEN tmap[parent_id]
    ELSE IF parent_id = "0" THEN None ELSE parent_id

\* the anchors of kept, each replaced by its GameObject
MapAnchors(kept, tmap) == [i \in DOMAIN kept |-> tmap[kept[i]]]

\* resolved_children of the first loop of _build_hierarchy
ResolvedChildren(children_ids, tmap) ==
    MapAnchors(SelectSeq(children_ids, LAMBDA c : c \in DOMAIN tmap),
               tmap)

\* the first loop of _build_hierarchy (the same code in the three pipelines):
\* Transform anchors rewritten to GameObject ids
ResolvePass(gos, tmap) ==
    [k \in DOMAIN gos |->
        [gos[k] EXCEPT !.parent_id = ResolvedParent(@, tmap),
                       !.children_ids = ResolvedChildren(@, tmap)]]

\* "Forward": every child of file_id that exists gets file_id as its parent
ForwardLinks(gos, file_id) ==
    [k \in DOMAIN gos |->
        IF k \in Range(gos[file_id].children_ids)
        THEN [gos[k] EXCEPT !.parent_id = file_id]
        ELSE gos[k]]

\* "Reverse": file_id is appended to its parent's children unless it is there
ReverseLink(gos, file_id) ==
    IF /\ Truthy(gos[file_id].parent_id)
       /\ gos[file_id].parent_id \in DOMAIN gos
       /\ file_id \notin Range(gos[gos[file_id].parent_id].children_ids)
    THEN [gos EXCEPT ![gos[file_id].parent_id].children_ids = Append(@, file_id)]
    ELSE gos

\* the second loop of IntegratedAssetProcessor._build_hierarchy from position i
\* of the dict order on
RECURSIVE IntegratedLinkPass(_, _, _)
IntegratedLinkPass(gos, order, i) ==
    IF i > Len(order) THEN gos
    ELSE IntegratedLinkPass(ReverseLink(ForwardLinks(gos, order[i]), order[i]),
                            order, i + 1)

\* the second loop of UnitySceneConverter._build_hierarchy
RECURSIVE SceneLinkPass(_, _, _)
SceneLinkPass(gos, order, i) ==
    IF i > Len(order) THEN gos
    ELSE SceneLinkPass(ForwardLinks(gos, order[i]), order, i + 1)

\* what the third loop of IntegratedAssetProcessor._build_hierarchy does with one
\* component on its GameObject
WithComponent(go, c) ==
    CASE c.type = "MeshRenderer" ->
           [go EXCEPT !.material_guids =
                        @ \o SelectSeq(c.data.m_Materials, LAMBDA g : g # "")]
      [] c.type = "MeshFilter" ->
           [go EXCEPT !.mesh_guid = IF c.data.m_Mesh # "" THEN c.data.m_Mesh ELSE @]
      [] c.type = "Rigidbody" ->
           [go EXCEPT !.has_rigidbody = TRUE, !.rigidbody_data = c.data]
      [] c.type \in {"BoxCollider", "SphereCollider", "CapsuleCollider", "MeshCollider"} ->
           [go EXCEPT !.colliders = Append(@, c.data)]
      [] OTHER -> go

\* the third loop of IntegratedAssetProcessor._build_hierarchy from component i on
RECURSIVE AssignComponents(_, _, _)
AssignComponents(gos, components_data, i) ==
    IF i > Len(components_data) THEN gos
    ELSE AssignComponents(
           IF components_data[i].m_GameObject \in DOMAIN gos
           THEN [gos EXCEPT ![components_data[i].m_GameObject] =
                              WithComponent(@, components_data[i])]
           ELSE gos,
           components_data, i + 1)

\* IntegratedAssetProcessor._build_hierarchy
IntegratedBuildHierarchy(ps) ==
    AssignComponents(IntegratedLinkPass(ResolvePass(ps.game_objects, ps.transform_map),
                                        ps.go_order, 1),
                     ps.components_data, 1)

\* UnitySceneConverter._build_hierarchy
SceneBuildHierarchy(ps) ==
    SceneLinkPass(ResolvePass(ps.game_objects, ps.transform_map), ps.go_order, 1)

\* UnityPrefabConverter._build_hierarchy (no GameObject of the files here lists
\* a mesh component, so its second loop changes nothing)
PrefabBuildHierarchy(ps) == ResolvePass(ps.game_objects, ps.transform_map)

\* the graph a parse leaves behind, gos being what _build_hierarchy made of
\* ps.game_objects
Parsed(ps, gos) ==
    /\ game_objects' = gos
    /\ go_order' = ps.go_order
    /\ transform_map' = ps.transform_map
    /\ prefab_instances' = ps.prefab_instances

\* IntegratedAssetProcessor._parse_unity_prefab
IntegratedParsed(ps) == Parsed(ps, IntegratedBuildHierarchy(ps))

\* parse_unity_scene up to and with _build_hierarchy
SceneParsed(ps) == Parsed(ps, SceneBuildHierarchy(ps))

\* UnityPrefabConverter.parse_unity_prefab
PrefabParsed(ps) == Parsed(ps, PrefabBuildHierarchy(ps))

\* IntegratedAssetProcessor._parse_unity_prefab, called by process_prefab
IntegratedParseOutcome(ps) ==
    IF ps.raised
    THEN \* the handler's exception reaches process_prefab's except clause
         /\ pc' = "done"
         /\ result' = FALSE
         /\ log' = log \cup {LogLine("Error processing prefab", "AttributeError")}
         /\ UNCHANGED <<game_objects, go_order, transform_map, prefab_instances,
                        entity_id_counter, prefab_data, component_id>>
    ELSE /\ pc' = "built"
         /\ IntegratedParsed(ps)
         /\ UNCHANGED <<outputVars, log>>

ParseUnityPrefab ==
    /\ pc = "start"
    /\ pipeline = "integrated"
    /\ IntegratedParseOutcome(ParseBlocks(file, 1, ParserState, "integrated", EmptyDict))
    /\ UNCHANGED <<convertVars, pipeline, file, guid_to_path, prefab_db,
                   prefab_references, missing_prefabs, entity_counter,
                   instance_counter, level_data, runVars>>

\* UnitySceneConverter.parse_unity_scene up to and with _build_hierarchy
\* a handler's exception leaves parse_unity_scene with what the loop had stored
\* and reaches _do_conversion's except clause
SceneParseOutcome(ps) ==
    IF ps.raised
    THEN /\ pc' = "done"
         /\ Parsed(ps, ps.game_objects)
         /\ log' = log \cup {LogLine("ERROR: Conversion failed", "AttributeError")}
    ELSE /\ pc' = "built"
         /\ SceneParsed(ps)
         /\ UNCHANGED log

ParseUnityScene ==
    /\ pc = "start"
    /\ pipeline = "scene"
    /\ SceneParseOutcome(ParseBlocks(file, 1, ParserState, "scene",
                                     PrefabInstanceGuids(file)))
    /\ UNCHANGED <<convertVars, pipeline, file, guid_to_path, outputVars, prefab_db,
                   prefab_references, missing_prefabs, entity_counter,
                   instance_counter, level_data, runVars>>

\* the blocks of a file that yaml.safe_load rejects (yaml.YAMLError)
Unparseable(blocks) == {blocks[i] : i \in {j \in DOMAIN blocks : blocks[j].kind = "Unparseable"}}

\* what UnityPrefabConverter.parse_unity_prefab prints: a warning for each block
\* that fails to parse, and the number of GameObjects
PrefabParseLines(blocks, gos) ==
    {LogLine("Warning: Failed to parse document", b.anchor) : b \in Unparseable(blocks)}
    \cup {LogLine("Parsed GameObjects", ToString(Cardinality(DOMAIN gos)))}

\* UnityPrefabConverter.parse_unity_prefab
\* a handler's exception leaves parse_unity_prefab with what the loop had
\* stored and reaches process_prefab_folder's except clause
PrefabParseOutcome(ps) ==
    IF ps.raised
    THEN /\ pc' = "done"
         /\ Parsed(ps, ps.game_objects)
         /\ log' = log \cup {LogLine("Failed to convert", "AttributeError")}
    ELSE /\ pc' = "built"
         /\ PrefabParsed(ps)
         /\ log' = log \cup PrefabParseLines(file, game_objects')

PrefabParseUnityPrefab ==
    /\ pc = "start"
    /\ pipeline = "prefab"
    /\ PrefabParseOutcome(ParseBlocks(file, 1, ParserState, "prefab", EmptyDict))
    /\ UNCHANGED <<convertVars, pipeline, file, guid_to_path, outputVars, prefab_db,
                   prefab_references, missing_prefabs, entity_counter,
                   instance_counter, level_data, runVars>>

-----------------------------------------------------------------------------
(* Scene pipeline: prefab references and the instances of the scene        *)

\* the characters of a name, letters grouped into words: a name without space,
\* parenthesis or digit is one word
NamePieces(name) ==
    CASE name = "" -> <<>>
      [] name = "Tree (1)" -> <<"Tree", " ", "(", "1", ")">>
      [] name = "Tree (12)" -> <<"Tree", " ", "(", "1", "2", ")">>
      [] name = "Tree (x)" -> <<"Tree", " ", "(", "x", ")">>
      [] name = "Big Tree" -> <<"Big", " ", "Tree">>
      [] name = "Big Tree(1)" -> <<"Big", " ", "Tree", "(", "1", ")">>
      [] OTHER -> <<name>>

\* ''.join(pieces)
RECURSIVE JoinPieces(_)
JoinPieces(pieces) ==
    IF pieces = <<>> THEN "" ELSE Head(pieces) \o JoinPieces(Tail(pieces))

\* \d of the regular expression
Digits == {"0", "1", "2", "3", "4", "5", "6", "7", "8", "9"}

\* how many pieces in a row, ending at index i, are in the set cls
RECURSIVE RunBefore(_, _, _)
RunBefore(pieces, i, cls) ==
    IF i >= 1 /\ pieces[i] \in cls THEN 1 + RunBefore(pieces, i - 1, cls) ELSE 0

\* the pieces left when the match of \s*\(\d+\)$ is removed: a closing
\* parenthesis at the end, one digit or more before it, an opening parenthesis
\* before them, and the spaces before that
StripDuplicateSuffix(pieces) ==
    LET n == Len(pieces)
        d == RunBefore(pieces, n - 1, Digits)
        open == n - 1 - d
    IN  IF n >= 3 /\ pieces[n] = ")" /\ d >= 1 /\ open >= 1 /\ pieces[open] = "("
        THEN SubSeq(pieces, 1, open - 1 - RunBefore(pieces, open - 1, {" "}))
        ELSE pieces

\* re.sub(r'\s*\(\d+\)$', '', name)
CleanName(name) == JoinPieces(StripDuplicateSuffix(NamePieces(name)))

\* the index of the last space of the pieces, 0 when there is none
LastSpace(pieces) ==
    LET at == {i \in DOMAIN pieces : pieces[i] = " "}
    IN  IF at = {} THEN 0 ELSE CHOOSE i \in at : \A j \in at : j <= i

\* name.rsplit(' ', 1)[0] if ' ' in name else name
BaseName(name) ==
    IF LastSpace(NamePieces(name)) = 0 THEN name
    ELSE JoinPieces(SubSeq(NamePieces(name), 1, LastSpace(NamePieces(name)) - 1))

\* mutant: the last-token step is tried before the parenthesized-number step
find_prefab_by_nameTokenFirst(db, name) ==
    IF name \in DOMAIN db.prefab_paths THEN db.prefab_paths[name]
    ELSE IF BaseName(name) \in DOMAIN db.prefab_paths
    THEN db.prefab_paths[BaseName(name)]
    ELSE Get(db.prefab_paths, CleanName(name))

\* PrefabDatabase.find_prefab_by_name
find_prefab_by_name(db, name) ==
    IF name \in DOMAIN db.prefab_paths THEN db.prefab_paths[name]
    ELSE IF CleanName(name) \in DOMAIN db.prefab_paths
    THEN db.prefab_paths[CleanName(name)]
    ELSE Get(db.prefab_paths, BaseName(name))

\* PrefabDatabase.find_prefab_by_guid
find_prefab_by_guid(db, guid) == Get(db.prefab_guids, guid)

\* prefab_path of _resolve_prefab_references for one GameObject: by guid, then
\* by name
ReferencePath(db, go) ==
    IF Truthy(go.prefab_source_guid) /\ find_prefab_by_guid(db, go.prefab_source_guid) # None
    THEN find_prefab_by_guid(db, go.prefab_source_guid)
    ELSE IF Truthy(go.prefab_name) THEN find_prefab_by_name(db, go.prefab_name)
    ELSE None

\* go.prefab_name or go.name or "Unknown"
MissingName(go) ==
    IF Truthy(go.prefab_name) THEN go.prefab_name
    ELSE IF go.name # "" THEN go.name ELSE "Unknown"

\* what the parse of a scene has built after _build_hierarchy, and what the two
\* passes that follow add to it
SceneGraph(gos, order, counter) ==
    [game_objects |-> gos, go_order |-> order, entity_counter |-> counter,
     prefab_references |-> EmptyDict, missing_prefabs |-> {}]

\* UnitySceneConverter._resolve_prefab_references
ResolvePrefabReferences(sg, db) ==
    [sg EXCEPT
       !.prefab_references =
           [k \in {g \in DOMAIN sg.game_objects :
                     /\ sg.game_objects[g].is_prefab_instance
                     /\ ReferencePath(db, sg.game_objects[g]) # None} |->
               ReferencePath(db, sg.game_objects[k])],
       !.missing_prefabs =
           {MissingName(sg.game_objects[g]) :
               g \in {h \in DOMAIN sg.game_objects :
                        /\ sg.game_objects[h].is_prefab_instance
                        /\ ReferencePath(db, sg.game_objects[h]) = None}}]

\* name of _process_prefab_instances
InstanceName(instance) == IF Truthy(instance.name) THEN instance.name ELSE "PrefabInstance"

\* prefab_path of _process_prefab_instances: by guid, then by name
InstancePath(db, instance) ==
    IF find_prefab_by_guid(db, instance.guid) # None
    THEN find_prefab_by_guid(db, instance.guid)
    ELSE find_prefab_by_name(db, InstanceName(instance))

\* parent_go_id of _process_prefab_instances, None when the instance names no
\* parent or the parent's Transform is unknown
InstanceParent(instance, tmap) ==
    IF Truthy(instance.parent_fileID) THEN Get(tmap, instance.parent_fileID) ELSE None

\* the GameObject _process_prefab_instances creates for an instance
InstanceGameObject(file_id, instance, tmap) ==
    [GameObject(file_id, InstanceName(instance),
                Transform(instance.position, instance.rotation, instance.scale))
        EXCEPT !.is_prefab_instance = TRUE,
               !.prefab_source_guid = instance.guid,
               !.prefab_name = InstanceName(instance),
               !.parent_id = IF Truthy(InstanceParent(instance, tmap))
                             THEN InstanceParent(instance, tmap) ELSE None]

\* game_objects of _process_prefab_instances after one instance: the parent's
\* children_ids gets file_id, then the new GameObject is stored
WithInstance(gos, file_id, instance, tmap) ==
    Put(IF Truthy(InstanceParent(instance, tmap))
           /\ InstanceParent(instance, tmap) \in DOMAIN gos
        THEN [gos EXCEPT ![InstanceParent(instance, tmap)].children_ids =
                           Append(@, file_id)]
        ELSE gos,
        file_id, InstanceGameObject(file_id, instance, tmap))

\* one turn of the loop of _process_prefab_instances
ProcessInstance(sg, instance, file_id, tmap, db) ==
    [sg EXCEPT
       !.entity_counter = @ + 1,
       !.game_objects = WithInstance(@, file_id, instance, tmap),
       !.go_order = OrderPut(@, file_id),
       !.prefab_references = PutIf(@, InstancePath(db, instance) # None, file_id,
                                   InstancePath(db, instance)),
       !.missing_prefabs = IF InstancePath(db, instance) = None
                           THEN @ \cup {InstanceName(instance)} ELSE @]

\* UnitySceneConverter._process_prefab_instances from instance i on
RECURSIVE ProcessPrefabInstances(_, _, _, _, _)
ProcessPrefabInstances(sg, instances, i, tmap, db) ==
    IF i > Len(instances) THEN sg
    ELSE ProcessPrefabInstances(
           ProcessInstance(sg, instances[i],
                           "prefab_instance_" \o ToString(sg.entity_counter), tmap, db),
           instances, i + 1, tmap, db)

\* the graph and the reference tables as the end of parse_unity_scene leaves them
SceneProcessed(sg) ==
    /\ game_objects' = sg.game_objects
    /\ go_order' = sg.go_order
    /\ entity_counter' = sg.entity_counter
    /\ prefab_references' = sg.prefab_references
    /\ missing_prefabs' = sg.missing_prefabs

\* what SceneConverterGUI._do_conversion reports after parse_unity_scene: the
\* GameObjects, the instances among them, the references found, the missing names
SceneParseLines(gos, references, missing) ==
    {LogLine("Found GameObjects", ToString(Cardinality(DOMAIN gos))),
     LogLine("Prefab instances in scene",
             ToString(Cardinality({k \in DOMAIN gos : gos[k].is_prefab_instance}))),
     LogLine("Prefabs found in directories", ToString(Cardinality(DOMAIN references)))}
    \cup (IF missing = {} THEN {}
          ELSE {LogLine("Missing prefabs", ToString(Cardinality(missing)))}
               \cup {LogLine("Missing prefab", n) : n \in missing})

\* the end of UnitySceneConverter.parse_unity_scene: _resolve_prefab_references
\* and _process_prefab_instances, and the report of _do_conversion
SceneProcessPrefabs ==
    /\ pc = "built"
    /\ pipeline = "scene"
    /\ pc' = "processed"
    /\ SceneProcessed(
         ProcessPrefabInstances(
           ResolvePrefabReferences(SceneGraph(game_objects, go_order, entity_counter),
                                   prefab_db),
           prefab_instances, 1, transform_map, prefab_db))
    /\ log' = log \cup SceneParseLines(game_objects', prefab_references', missing_prefabs')
    /\ UNCHANGED <<convertVars, pipeline, file, transform_map, guid_to_path, outputVars,
                   prefab_db, prefab_instances, instance_counter, level_data, runVars>>

-----------------------------------------------------------------------------
(* Scene pipeline: create_o3de_level                                       *)

\* the Id of the level's container entity
LevelContainerId == "Entity_[1000000]"

\* the state of create_o3de_level: the converter's counters and the dicts of
\* level_data
LevelState(counter, instances_made) ==
    [entity_counter |-> counter, instance_counter |-> instances_made,
     entities |-> EmptyDict, instances |-> EmptyDict, entity_id_map |-> EmptyDict,
     overflow |-> FALSE]

\* UnitySceneConverter._create_prefab_instance (the source path is the one the
\* database holds)
ScenePrefabInstance(go, prefab_path, parent_entity_id) ==
    [Source |-> prefab_path,
     Patches |-> InstancePatches(SceneConvert(go.transform).transform, parent_entity_id)]

\* the instance branch of UnitySceneConverter._create_entity_recursive and of the
\* loop of create_o3de_level
SceneInstance(go, prefab_path, parent_entity_id, st) ==
    [st |-> [st EXCEPT !.instance_counter = @ + 1,
                       !.instances = Put(@, InstanceIdOf(st.instance_counter),
                                         ScenePrefabInstance(go, prefab_path,
                                                             parent_entity_id))],
     id |-> InstanceIdOf(st.instance_counter) \o "/ContainerEntity"]

\* the entity of UnitySceneConverter._create_entity_recursive before its
\* children: editor components, transform, non-uniform scale; conv is the
\* converted transform
SceneEntityBody(go, entity_id, parent_entity_id, conv) ==
    [Id |-> entity_id, Name |-> go.name,
     Components |->
        PutIf(Put([k \in EditorComponents |-> [type |-> k]], "TransformComponent",
                  TransformComponent(conv.transform, conv.needs_nonuniform,
                                     parent_entity_id)),
              conv.needs_nonuniform, "EditorNonUniformScaleComponent",
              [type |-> "EditorNonUniformScaleComponent",
               Scale |-> conv.transform.scale])]

RECURSIVE SceneCreateEntityRecursive(_, _, _, _, _)
RECURSIVE SceneCreateChildren(_, _, _, _, _, _, _)

\* one turn of the children loop of UnitySceneConverter._create_entity_recursive
SceneChildDone(children_ids, i, env, entity_id, child_order, fuel, r) ==
    SceneCreateChildren(children_ids, i + 1, env, entity_id, r.st,
                        IF r.st.overflow THEN child_order ELSE Append(child_order, r.id),
                        fuel)

\* the loop over go.children_ids of UnitySceneConverter._create_entity_recursive
SceneCreateChildren(children_ids, i, env, entity_id, st, child_order, fuel) ==
    IF i > Len(children_ids) \/ st.overflow
    THEN [st |-> st, child_order |-> child_order]
    ELSE IF children_ids[i] \in DOMAIN env.game_objects
    THEN SceneChildDone(children_ids, i, env, entity_id, child_order, fuel,
                        SceneCreateEntityRecursive(env.game_objects[children_ids[i]],
                                                   env, entity_id, st, fuel))
    ELSE SceneCreateChildren(children_ids, i + 1, env, entity_id, st, child_order, fuel)

\* the entity stored once its children are walked
SceneWalked(entity_id, entity, kids) ==
    StoreEntity(entity_id, entity, kids.child_order, kids.st)

\* the plain-entity part of UnitySceneConverter._create_entity_recursive
ScenePlainEntity(go, env, parent_entity_id, st, entity_id, fuel) ==
    SceneWalked(entity_id,
                SceneEntityBody(go, entity_id, parent_entity_id,
                                SceneConvert(go.transform)),
                SceneCreateChildren(go.children_ids, 1, env, entity_id,
                                    [st EXCEPT !.entity_counter = @ + 1,
                                               !.entity_id_map =
                                                   Put(@, go.file_id, entity_id)],
                                    <<>>, fuel - 1))

\* UnitySceneConverter._create_entity_recursive.  fuel is the recursion depth
\* left: a walk deeper than the number of GameObjects repeats a node and never
\* returns, which st.overflow records.
SceneCreateEntityRecursive(go, env, parent_entity_id, st, fuel) ==
    IF fuel = 0 THEN [st |-> [st EXCEPT !.overflow = TRUE], id |-> None]
    ELSE IF go.file_id \in DOMAIN env.prefab_references
    THEN SceneInstance(go, env.prefab_references[go.file_id], parent_entity_id, st)
    ELSE ScenePlainEntity(go, env, parent_entity_id, st,
                          EntityIdOf(st.entity_counter + 1), fuel)

\* one turn of the loop over root_objects of create_o3de_level
RECURSIVE LevelRoots(_, _, _, _, _, _)
LevelRootDone(roots, i, env, child_order, fuel, r) ==
    LevelRoots(roots, i + 1, env, r.st,
               IF r.st.overflow THEN child_order ELSE Append(child_order, r.id), fuel)

\* the loop over root_objects of create_o3de_level from root i on
LevelRoots(roots, i, env, st, child_order, fuel) ==
    IF i > Len(roots) \/ st.overflow
    THEN [st |-> st, child_order |-> child_order]
    ELSE LevelRootDone(roots, i, env, child_order, fuel,
           IF roots[i] \in DOMAIN env.prefab_references
           THEN SceneInstance(env.game_objects[roots[i]],
                              env.prefab_references[roots[i]], LevelContainerId, st)
           ELSE SceneCreateEntityRecursive(env.game_objects[roots[i]], env,
                                           LevelContainerId, st, fuel))

\* UnitySceneConverter._create_level_container with the child order filled in
LevelContainer(child_order) ==
    [Id |-> LevelContainerId, Name |-> "Level", ParentEntity |-> "",
     ChildEntityOrder |-> child_order]

\* what _do_conversion reports after create_o3de_level: the three counts it
\* returned, or the exception it raised
LevelLines(walked) ==
    IF walked.st.overflow
    THEN {LogLine("ERROR: Conversion failed", "maximum recursion depth exceeded")}
    ELSE {LogLine("Total entities",
                  ToString(Cardinality(DOMAIN walked.st.entities)
                           + Cardinality(DOMAIN walked.st.instances))),
          LogLine("Prefab references", ToString(Cardinality(DOMAIN walked.st.instances))),
          LogLine("Blank entities", ToString(Cardinality(DOMAIN walked.st.entities)))}

\* the level written and the counters left by create_o3de_level, walked being
\* what the loop over the roots returned; nothing is written when the walk
\* never returns
LevelWritten(walked) ==
    /\ entity_counter' = walked.st.entity_counter
    /\ instance_counter' = walked.st.instance_counter
    /\ IF walked.st.overflow
       THEN UNCHANGED <<level_data, component_id>>
       ELSE /\ level_data' = [ContainerEntity |-> LevelContainer(walked.child_order),
                              Entities |-> walked.st.entities,
                              Instances |-> walked.st.instances]
            /\ component_id' \in ComponentIds
    /\ log' = log \cup LevelLines(walked)

\* UnitySceneConverter.create_o3de_level
CreateO3deLevel ==
    /\ pc = "processed"
    /\ pipeline = "scene"
    /\ pc' = "done"
    /\ LevelWritten(
         LevelRoots(RootIds(go_order, game_objects), 1,
                    [game_objects |-> game_objects,
                     prefab_references |-> prefab_references],
                    LevelState(entity_counter, instance_counter), <<>>,
                    Len(go_order)))
    /\ UNCHANGED <<convertVars, graphVars, entity_id_counter, prefab_data, result,
                   prefab_db, prefab_instances, prefab_references, missing_prefabs,
                   runVars>>

-----------------------------------------------------------------------------
(* Files of three GameObjects whose Transform blocks link them in every way, *)
(* consistent or not, parsed and built in each pipeline                      *)

Pipelines == {"integrated", "scene", "prefab"}

\* the anchors of the GameObject blocks and of their Transform blocks
GoAnchors == <<"g1", "g2", "g3">>
TransformAnchors == <<"t1", "t2", "t3">>
\* an anchor no block of the file has
DanglingAnchor == "t9"
NodeNames == <<"Root", "Arm", "Hand">>

\* the Transform anchors of the other nodes
Others(i) == {TransformAnchors[j] : j \in (DOMAIN TransformAnchors) \ {i}}

\* what m_Father of node i may name: nothing, another node, a missing block
Fathers(i) == {"0", DanglingAnchor} \cup Others(i)

\* what m_Children of node i may list
ChildLists(i) ==
    {<<>>} \cup {<<c>> : c \in Others(i) \cup {DanglingAnchor}}
           \cup ({<<c, d>> : c \in Others(i), d \in {DanglingAnchor} \cup Others(i)}
                   \ {<<c, c>> : c \in Others(i)})

Links(i) == [m_Father : Fathers(i), m_Children : ChildLists(i)]

\* the local transform node i has in every file
NodeTransform(i) == Transform(<<i * One, 0, 0>>, <<0, 0, 0, One>>, <<One, One, One>>)

\* a GameObject block that is no prefab instance
PlainGameObjectBlock(i) ==
    GameObjectBlock(GoAnchors[i], NodeNames[i], TransformAnchors[i],
                    [fileID |-> "0", guid |-> ""], "", "")

NodeTransformBlock(i, link) ==
    TransformBlock(TransformAnchors[i], GoAnchors[i], link.m_Father, link.m_Children,
                   NodeTransform(i))

\* the file order: each GameObject block before its Transform block ("GT", as
\* Unity writes it) or after it ("TG")
Layouts == {"GT", "TG"}

\* the file of the nodes linked as links says
HierarchyFile(links, layout) ==
    [n \in 1..(2 * Len(GoAnchors)) |->
        IF (n % 2 = 1) = (layout = "GT")
        THEN PlainGameObjectBlock((n + 1) \div 2)
        ELSE NodeTransformBlock((n + 1) \div 2, links[(n + 1) \div 2])]

HierarchyFiles ==
    {HierarchyFile(<<a, b, c>>, layout) :
        a \in Links(1), b \in Links(2), c \in Links(3), layout \in Layouts}

HierarchyInit ==
    /\ pc = "start"
    /\ pipeline \in Pipelines
    /\ file \in HierarchyFiles
    /\ game_objects = EmptyDict
    /\ go_order = <<>>
    /\ transform_map = EmptyDict
    /\ guid_to_path = EmptyDict
    /\ ConvertIdle
    /\ OutputIdle
    /\ SceneIdle
    /\ RunIdle

HierarchyNext == ParseUnityPrefab \/ ParseUnityScene \/ PrefabParseUnityPrefab

SpecHierarchy == HierarchyInit /\ [][HierarchyNext]_vars

-----------------------------------------------------------------------------
(* Files with nested prefab instances: two GameObjects, either of which may  *)
(* itself be marked as a prefab instance, and one or two PrefabInstance      *)
(* blocks, run through the integrated and the scene pipeline                 *)

\* self.entity_counter = self.instance_counter = 1000000 (UnitySceneConverter)
SceneInitialCounter == 1000000

\* the O3DE prefabs the scene converter knows: Tree with its Unity guid, Rock
\* by name only
InstanceDb ==
    [prefab_guids |-> [g \in {"guid_prefab"} |-> "Prefabs/Tree.prefab"],
     prefab_paths |-> [n \in {"Tree", "Rock"} |-> "Prefabs/" \o n \o ".prefab"]]

\* a GameObject block of node i: "plain", or marked as an instance of a prefab
\* whose guid is unknown and whose name resolves ("reference") or does not
\* ("missing"), or marked and pointing at the PrefabInstance block p1 for its
\* guid ("linked")
KindGameObjectBlock(i, kind) ==
    CASE kind = "plain" -> PlainGameObjectBlock(i)
      [] kind = "reference" ->
           GameObjectBlock(GoAnchors[i], "Tree (1)", TransformAnchors[i],
                           [fileID |-> "500", guid |-> ""], "guid_gone", "")
      [] kind = "missing" ->
           GameObjectBlock(GoAnchors[i], "Ghost", TransformAnchors[i],
                           [fileID |-> "500", guid |-> ""], "guid_gone", "")
      [] kind = "linked" ->
           GameObjectBlock(GoAnchors[i], NodeNames[i], TransformAnchors[i],
                           [fileID |-> "500", guid |-> ""], "", "p1")

\* the guids, names and parents the first PrefabInstance block may have
InstanceGuids == {"guid_prefab", "guid_gone"}
InstanceNames == {None, "Tree (1)", "Rock", "Ghost"}
InstanceParents == {"0", "t1", "t2", DanglingAnchor}

\* the PrefabInstance blocks of a file: p1, and in some files a second instance
\* p2 of an unknown prefab called "Ghost" as well
InstanceBlocks ==
    {<<PrefabInstanceBlock("p1", g, par, n, <<4 * One, 0, 0>>)>> :
        g \in InstanceGuids, par \in InstanceParents, n \in InstanceNames}
    \cup {<<PrefabInstanceBlock("p1", g, par, n, <<4 * One, 0, 0>>),
            PrefabInstanceBlock("p2", "guid_gone", par2, "Ghost", <<5 * One, 0, One>>)>> :
        g \in InstanceGuids, par \in InstanceParents, n \in InstanceNames,
        par2 \in {"0", "t1"}}

\* the GameObject and Transform blocks of a file: g1 is declared parentless, g2
\* a child of g1, parentless, or the child of a missing block
NodeBlocks ==
    {<<KindGameObjectBlock(1, k1),
       NodeTransformBlock(1, [m_Father |-> "0", m_Children |-> ch]),
       KindGameObjectBlock(2, k2),
       NodeTransformBlock(2, [m_Father |-> f, m_Children |-> <<>>])>> :
        k1 \in {"plain", "reference", "missing"},
        k2 \in {"plain", "missing", "linked"},
        ch \in {<<>>, <<"t2">>},
        f \in {"t1", "0", DanglingAnchor}}

InstanceFiles == {n \o p : n \in NodeBlocks, p \in InstanceBlocks}

InstancesInit ==
    /\ pc = "start"
    /\ pipeline \in {"integrated", "scene"}
    /\ file \in InstanceFiles
    /\ game_objects = EmptyDict
    /\ go_order = <<>>
    /\ transform_map = EmptyDict
    /\ guid_to_path = AssetIndex
    /\ entity_id_counter = InitialEntityCounter
    /\ prefab_data = NoData
    /\ result = FALSE
    /\ component_id = None
    /\ prefab_db = InstanceDb
    /\ prefab_instances = <<>>
    /\ prefab_references = EmptyDict
    /\ missing_prefabs = {}
    /\ entity_counter = SceneInitialCounter
    /\ instance_counter = SceneInitialCounter
    /\ level_data = NoData
    /\ ConvertIdle
    /\ RunIdle

InstancesNext ==
    \/ ParseUnityPrefab
    \/ IntegratedCreatePrefab
    \/ ParseUnityScene
    \/ SceneProcessPrefabs
    \/ CreateO3deLevel

SpecInstances == InstancesInit /\ [][InstancesNext]_vars

-----------------------------------------------------------------------------
(* Scenes for the resolution order: one GameObject marked as an instance   *)
(* and one PrefabInstance block, against databases of several prefabs       *)

\* the file names (stems) the search directories may hold
ResolveKeys == {"Tree", "Big Tree", "Big"}

\* the file add_search_directory stores under a stem, and a file of the same stem
\* in a subdirectory, which prefab_guids may hold while prefab_paths holds the
\* other one
PrefabFile(stem) == "Prefabs/" \o stem \o ".prefab"
ArchivedFile(stem) == "Prefabs/Archive/" \o stem \o ".prefab"

\* the databases add_search_directory can have built: the stems found, and no
\* .meta guid or the guid of one of the files
ResolveDbs ==
    UNION {
        {[prefab_paths |-> [k \in keys |-> PrefabFile(k)], prefab_guids |-> EmptyDict]}
        \cup {[prefab_paths |-> [k \in keys |-> PrefabFile(k)],
               prefab_guids |-> [g \in {"guid_prefab"} |-> f]] :
                 f \in {PrefabFile(k) : k \in keys} \cup {ArchivedFile(k) : k \in keys}}
        : keys \in SUBSET ResolveKeys}

\* the names of the marked GameObject and of the PrefabInstance block
ResolveNames ==
    {"", "Tree", "Tree (1)", "Tree (12)", "Tree (x)", "Big Tree", "Big Tree(1)", "Ghost"}
ResolveInstanceNames == {None, "Tree", "Tree (1)", "Tree (x)", "Big Tree(1)", "Ghost"}

\* where the marked GameObject's guid is written: m_PrefabAsset, the
\* PrefabInstance block p1, m_CorrespondingSourceObject, or nowhere
ResolveGuidFields ==
    {[m_PrefabAsset |-> "guid_prefab", m_PrefabInstance |-> "", guid |-> ""],
     [m_PrefabAsset |-> "guid_gone", m_PrefabInstance |-> "", guid |-> ""],
     [m_PrefabAsset |-> "", m_PrefabInstance |-> "p1", guid |-> ""],
     [m_PrefabAsset |-> "", m_PrefabInstance |-> "", guid |-> "guid_prefab"],
     [m_PrefabAsset |-> "", m_PrefabInstance |-> "", guid |-> ""]}

ResolveFiles ==
    {<<GameObjectBlock("g1", n, "t1", [fileID |-> "500", guid |-> gf.guid],
                       gf.m_PrefabAsset, gf.m_PrefabInstance),
       NodeTransformBlock(1, [m_Father |-> "0", m_Children |-> <<>>]),
       PrefabInstanceBlock("p1", g, "0", iname, <<4 * One, 0, 0>>)>> :
        n \in ResolveNames, gf \in ResolveGuidFields,
        g \in InstanceGuids, iname \in ResolveInstanceNames}

ResolveInit ==
    /\ pc = "start"
    /\ pipeline = "scene"
    /\ file \in ResolveFiles
    /\ game_objects = EmptyDict
    /\ go_order = <<>>
    /\ transform_map = EmptyDict
    /\ guid_to_path = EmptyDict
    /\ OutputIdle
    /\ prefab_db \in ResolveDbs
    /\ prefab_instances = <<>>
    /\ prefab_references = EmptyDict
    /\ missing_prefabs = {}
    /\ entity_counter = SceneInitialCounter
    /\ instance_counter = SceneInitialCounter
    /\ level_data = NoData
    /\ ConvertIdle
    /\ RunIdle

ResolveNext ==
    \/ ParseUnityScene
    \/ SceneProcessPrefabs
    \/ CreateO3deLevel

SpecResolve == ResolveInit /\ [][ResolveNext]_vars

-----------------------------------------------------------------------------
(* Files for the child order: a root with two GameObjects below it, box     *)
(* colliders on the root and on g2, and in some files a nested instance     *)

\* the Transform links of the three nodes: g1 is the root, g2 its child, g3 a
\* child of g1 or of g2; the m_Children lists name them in either order, or
\* leave them to m_Father
OrderLinks ==
    {<<[m_Father |-> "0", m_Children |-> c1],
       [m_Father |-> "t1", m_Children |-> c2],
       [m_Father |-> f3, m_Children |-> <<>>]>> :
        c1 \in {<<"t2", "t3">>, <<"t3", "t2">>, <<"t2">>, <<>>},
        c2 \in {<<>>, <<"t3">>},
        f3 \in {"t1", "t2"}}

\* the GameObject and Transform blocks of a file with these links
OrderNodeBlocks(links) ==
    <<PlainGameObjectBlock(1), NodeTransformBlock(1, links[1]),
      PlainGameObjectBlock(2), NodeTransformBlock(2, links[2]),
      PlainGameObjectBlock(3), NodeTransformBlock(3, links[3])>>

\* n BoxCollider blocks of GameObject go, anchored c<go>1, c<go>2, ...
BoxColliderBlocks(go, n) ==
    [i \in 1..n |->
        ComponentBlock("c" \o go \o ToString(i), "BoxCollider", go,
                       [type |-> "BoxCollider", is_trigger |-> FALSE,
                        center |-> <<0, 0, 0>>,
                        size |-> <<i * One, 2 * One, 2 * One>>])]

\* no PrefabInstance block, or one below g1 or g2 whose prefab is in the asset
\* index (guid_prefab) or not
OrderInstanceBlocks ==
    {<<>>} \cup {<<PrefabInstanceBlock("p1", g, par, "Tree", <<4 * One, 0, 0>>)>> :
                    g \in InstanceGuids, par \in {"t1", "t2"}}

OrderFiles ==
    {OrderNodeBlocks(l) \o BoxColliderBlocks("g1", n1) \o BoxColliderBlocks("g2", n2) \o p :
        l \in OrderLinks, n1 \in 0..MaxColliders, n2 \in {0, 2},
        p \in OrderInstanceBlocks}

OrderInit ==
    /\ pc = "start"
    /\ pipeline \in {"integrated", "scene"}
    /\ file \in OrderFiles
    /\ game_objects = EmptyDict
    /\ go_order = <<>>
    /\ transform_map = EmptyDict
    /\ guid_to_path = AssetIndex
    /\ entity_id_counter = InitialEntityCounter
    /\ prefab_data = NoData
    /\ result = FALSE
    /\ component_id = None
    /\ prefab_db = InstanceDb
    /\ prefab_instances = <<>>
    /\ prefab_references = EmptyDict
    /\ missing_prefabs = {}
    /\ entity_counter = SceneInitialCounter
    /\ instance_counter = SceneInitialCounter
    /\ level_data = NoData
    /\ ConvertIdle
    /\ RunIdle

OrderNext ==
    \/ ParseUnityPrefab
    \/ IntegratedCreatePrefab
    \/ ParseUnityScene
    \/ SceneProcessPrefabs
    \/ CreateO3deLevel

SpecOrder == OrderInit /\ [][OrderNext]_vars

-----------------------------------------------------------------------------
(* Files with items the converters skip: a block that is not valid YAML, a  *)
(* mesh or material guid the asset index does not know, an instance of an   *)
(* unknown prefab, a second parentless node, a node below a missing block   *)

\* a block whose text yaml.safe_load rejects
UnparseableBlock(anchor) == [kind |-> "Unparseable", anchor |-> anchor]

\* the guid no .meta file of the project holds
LostGuid == "guid_lost"

\* the two GameObjects and their Transforms: each GameObject block before or
\* after its Transform block; g2 below g1, parentless, or below a missing block
SkipNodeBlocks ==
    {<<PlainGameObjectBlock(1),
       NodeTransformBlock(1, [m_Father |-> "0", m_Children |-> <<>>]),
       PlainGameObjectBlock(2),
       NodeTransformBlock(2, [m_Father |-> f, m_Children |-> <<>>])>> :
        f \in {"t1", "0", DanglingAnchor}}
    \cup {<<NodeTransformBlock(1, [m_Father |-> "0", m_Children |-> <<>>]),
            PlainGameObjectBlock(1),
            NodeTransformBlock(2, [m_Father |-> f, m_Children |-> <<>>]),
            PlainGameObjectBlock(2)>> :
        f \in {"t1", "0", DanglingAnchor}}

\* no MeshFilter on g2, or one whose mesh guid is known or not
SkipMeshBlocks ==
    {<<>>} \cup {<<ComponentBlock("m1", "MeshFilter", "g2", [m_Mesh |-> g])>> :
                    g \in {"guid_mesh", LostGuid}}

\* no MeshRenderer on g2, or one whose material guid is known or not
SkipMaterialBlocks ==
    {<<>>} \cup {<<ComponentBlock("r1", "MeshRenderer", "g2", [m_Materials |-> <<g>>])>> :
                    g \in {"guid_mat", LostGuid}}

\* no PrefabInstance block, or one below g1 of a known or an unknown prefab
SkipInstanceBlocks ==
    {<<>>} \cup {<<PrefabInstanceBlock("p1", g, "t1", "Tree", <<4 * One, 0, 0>>)>> :
                    g \in InstanceGuids}

\* blocks with the block u put in after the first at blocks
InsertBlock(blocks, at, u) ==
    SubSeq(blocks, 1, at) \o <<u>> \o SubSeq(blocks, at + 1, Len(blocks))

\* the well-formed files, and the same files with an unparseable block at the
\* start, in the middle or at the end
SkipCleanFiles ==
    {n \o m \o r \o p : n \in SkipNodeBlocks, m \in SkipMeshBlocks,
                        r \in SkipMaterialBlocks, p \in SkipInstanceBlocks}
SkipFiles ==
    SkipCleanFiles
    \cup UNION {{InsertBlock(f, at, UnparseableBlock("u1")) : at \in {0, 2, Len(f)}} :
                  f \in SkipCleanFiles}

SkipInit ==
    /\ pc = "start"
    /\ pipeline \in Pipelines
    /\ file \in SkipFiles
    /\ game_objects = EmptyDict
    /\ go_order = <<>>
    /\ transform_map = EmptyDict
    /\ guid_to_path = AssetIndex
    /\ entity_id_counter = InitialEntityCounter
    /\ prefab_data = NoData
    /\ result = FALSE
    /\ component_id = None
    /\ prefab_db = InstanceDb
    /\ prefab_instances = <<>>
    /\ prefab_references = EmptyDict
    /\ missing_prefabs = {}
    /\ entity_counter = SceneInitialCounter
    /\ instance_counter = SceneInitialCounter
    /\ level_data = NoData
    /\ ConvertIdle
    /\ RunIdle

SkipNext ==
    \/ ParseUnityPrefab
    \/ IntegratedCreatePrefab
    \/ ParseUnityScene
    \/ SceneProcessPrefabs
    \/ CreateO3deLevel
    \/ PrefabParseUnityPrefab

SpecSkip == SkipInit /\ [][SkipNext]_vars

-----------------------------------------------------------------------------
(* A batch: the prefab files of a source folder, run one after the other     *)
(* through one IntegratedAssetProcessor by the loop of _do_processing         *)

\* a block that is valid YAML of the wrong shape ("Transform: 5"): the handler
\* of its kind raises AttributeError
MalformedBlock(anchor) == [kind |-> "Malformed", anchor |-> anchor]

\* the two GameObjects of a batch file with the Transform links l1 and l2
BatchNodeBlocks(l1, l2) ==
    <<PlainGameObjectBlock(1), NodeTransformBlock(1, l1),
      PlainGameObjectBlock(2), NodeTransformBlock(2, l2)>>

\* a root with a child that carries a box collider
BatchTreeFile ==
    BatchNodeBlocks([m_Father |-> "0", m_Children |-> <<"t2">>],
                    [m_Father |-> "t1", m_Children |-> <<>>])
    \o BoxColliderBlocks("g2", 1)

\* two parentless GameObjects
BatchTwoRootsFile ==
    BatchNodeBlocks([m_Father |-> "0", m_Children |-> <<>>],
                    [m_Father |-> "0", m_Children |-> <<>>])

\* a file without GameObjects: only a component block
BatchEmptyFile == BoxColliderBlocks("g1", 1)

\* each GameObject names the other as its father: no root
BatchNoRootFile ==
    BatchNodeBlocks([m_Father |-> "t2", m_Children |-> <<>>],
                    [m_Father |-> "t1", m_Children |-> <<>>])

\* the child lists itself as its child: the walk from the root never ends
BatchCycleFile ==
    BatchNodeBlocks([m_Father |-> "0", m_Children |-> <<"t2">>],
                    [m_Father |-> "t1", m_Children |-> <<"t2">>])

\* a block whose handler raises, after the first GameObject
BatchMalformedFile == InsertBlock(BatchTreeFile, 2, MalformedBlock("x1"))

BatchFileSet ==
    {BatchTreeFile, BatchTwoRootsFile, BatchEmptyFile, BatchNoRootFile,
     BatchCycleFile, BatchMalformedFile}

\* the most files in a batch
MaxBatch == 3

\* list(Path(source_path).rglob('*.prefab')): the files of the source folder
Batches == UNION {[1..n -> BatchFileSet] : n \in 1..MaxBatch}

\* the loop left at the first file that fails
NextPrefabStopsAtFailure ==
    /\ pc = "done"
    /\ pipeline = "integrated"
    /\ Len(returned) < Len(prefab_files)
    /\ returned' = Append(returned, result)
    /\ success_count' = IF result THEN success_count + 1 ELSE success_count
    /\ IF Len(returned') < Len(prefab_files) /\ result
       THEN /\ pc' = "start"
            /\ file' = prefab_files[Len(returned') + 1]
            /\ game_objects' = EmptyDict
            /\ go_order' = <<>>
            /\ transform_map' = EmptyDict
            /\ result' = FALSE
            /\ UNCHANGED log
       ELSE /\ pc' = "finished"
            /\ log' = log \cup {LogLine("Prefabs processed",
                                        ToString(success_count') \o "/"
                                        \o ToString(Len(prefab_files)))}
            /\ UNCHANGED <<file, game_objects, go_order, transform_map, result>>
    /\ UNCHANGED <<convertVars, pipeline, guid_to_path, entity_id_counter, prefab_data,
                   component_id, sceneVars, prefab_dirs, prefab_files, assetVars,
                   guiVars>>

\* one turn of the loop of _do_processing after process_prefab has returned:
\* the success counted, then the next file taken up with fresh locals, or
\* after the last file the summary logged
NextPrefab ==
    /\ pc = "done"
    /\ pipeline = "integrated"
    /\ Len(returned) < Len(prefab_files)
    /\ returned' = Append(returned, result)
    /\ success_count' = IF result THEN success_count + 1 ELSE success_count
    /\ IF Len(returned') < Len(prefab_files)
       THEN /\ pc' = "start"
            /\ file' = prefab_files[Len(returned') + 1]
            /\ game_objects' = EmptyDict
            /\ go_order' = <<>>
            /\ transform_map' = EmptyDict
            /\ result' = FALSE
            /\ UNCHANGED log
       ELSE /\ pc' = "finished"
            /\ log' = log \cup {LogLine("Prefabs processed",
                                        ToString(success_count') \o "/"
                                        \o ToString(Len(prefab_files)))}
            /\ UNCHANGED <<file, game_objects, go_order, transform_map, result>>
    /\ UNCHANGED <<convertVars, pipeline, guid_to_path, entity_id_counter, prefab_data,
                   component_id, sceneVars, prefab_dirs, prefab_files, assetVars,
                   guiVars>>

BatchInit ==
    /\ pc = "start"
    /\ pipeline = "integrated"
    /\ prefab_files \in Batches
    /\ file = prefab_files[1]
    /\ game_objects = EmptyDict
    /\ go_order = <<>>
    /\ transform_map = EmptyDict
    /\ guid_to_path = AssetIndex
    /\ entity_id_counter = InitialEntityCounter
    /\ prefab_data = NoData
    /\ result = FALSE
    /\ component_id = None
    /\ log = {}
    /\ prefab_dirs = <<>>
    /\ success_count = 0
    /\ returned = <<>>
    /\ AssetsIdle
    /\ GuiRunning
    /\ SceneIdle
    /\ ConvertIdle

BatchNext ==
    \/ ParseUnityPrefab
    \/ IntegratedCreatePrefab
    \/ NextPrefab

SpecBatch == BatchInit /\ [][BatchNext]_vars

-----------------------------------------------------------------------------
(* SceneConverterGUI: the prefab directory buttons of the main thread and    *)
(* the conversion that _convert_scene starts in a worker thread               *)

\* the directories the user can pick, and the .prefab files below each with
\* the guid of their .meta file (None without one)
Directories == {"Prefabs", "Props"}
DirectoryPrefabs(directory) ==
    IF directory = "Prefabs"
    THEN {[stem |-> "Tree", guid |-> "guid_prefab"], [stem |-> "Rock", guid |-> None]}
    ELSE {[stem |-> "Tree", guid |-> None]}

\* PrefabDatabase()
EmptyDb == [prefab_paths |-> EmptyDict, prefab_guids |-> EmptyDict]

\* PrefabDatabase.add_search_directory
add_search_directory(db, directory) ==
    LET found  == DirectoryPrefabs(directory)
        stems  == {f.stem : f \in found}
        guids  == {f.guid : f \in found} \ {None}
        at(st) == directory \o "/" \o st \o ".prefab"
    IN  [prefab_paths |->
            [k \in DOMAIN db.prefab_paths \cup stems |->
                IF k \in stems THEN at(k) ELSE db.prefab_paths[k]],
         prefab_guids |->
            [g \in DOMAIN db.prefab_guids \cup guids |->
                IF g \in guids
                THEN at((CHOOSE f \in found : f.guid = g).stem)
                ELSE db.prefab_guids[g]]]

\* the loop of _remove_prefab_directory over the directories left, from the i-th
RECURSIVE RebuildDb(_, _, _)
RebuildDb(dirs, i, db) ==
    IF i > Len(dirs) THEN db
    ELSE RebuildDb(dirs, i + 1, add_search_directory(db, dirs[i]))

\* SceneConverterGUI._add_prefab_directory: the database of the converter is
\* changed in place
AddPrefabDirectory ==
    /\ pipeline = "scene"
    /\ \E directory \in Directories :
          /\ \A i \in DOMAIN prefab_dirs : prefab_dirs[i] # directory
          /\ prefab_dirs' = Append(prefab_dirs, directory)
          /\ prefab_db' = add_search_directory(prefab_db, directory)
          /\ log' = log \cup {LogLine("Added directory", directory)}
    /\ UNCHANGED <<pc, convertVars, graphVars, outputVars, prefab_instances,
                   prefab_references, missing_prefabs, entity_counter,
                   instance_counter, level_data, prefab_files, success_count,
                   returned, assetVars, guiVars>>

\* SceneConverterGUI._remove_prefab_directory: a new database is built from the
\* directories left and given to the converter
RemovePrefabDirectory ==
    /\ pipeline = "scene"
    /\ \E index \in DOMAIN prefab_dirs :
          /\ prefab_dirs' = SubSeq(prefab_dirs, 1, index - 1)
                            \o SubSeq(prefab_dirs, index + 1, Len(prefab_dirs))
          /\ log' = log \cup {LogLine("Removed directory", prefab_dirs[index])}
    /\ prefab_db' = RebuildDb(prefab_dirs', 1, EmptyDb)
    /\ UNCHANGED <<pc, convertVars, graphVars, outputVars, prefab_instances,
                   prefab_references, missing_prefabs, entity_counter,
                   instance_counter, level_data, prefab_files, success_count,
                   returned, assetVars, guiVars>>

\* SceneConverterGUI._clear_prefab_directories
ClearPrefabDirectories ==
    /\ pipeline = "scene"
    /\ prefab_dirs' = <<>>
    /\ prefab_db' = EmptyDb
    /\ log' = log \cup {LogLine("Cleared all prefab directories", "")}
    /\ UNCHANGED <<pc, convertVars, graphVars, outputVars, prefab_instances,
                   prefab_references, missing_prefabs, entity_counter,
                   instance_counter, level_data, prefab_files, success_count,
                   returned, assetVars, guiVars>>

\* mutant: the worker thread is started with the convert button left enabled
ConvertSceneButtonLeftEnabled ==
    /\ btn_state = "normal"
    /\ pipeline = "scene"
    /\ workers' = workers + 1
    /\ pc' = "start"
    /\ UNCHANGED <<convertVars, graphVars, outputVars, sceneVars, log, prefab_dirs,
                   prefab_files, success_count, returned, assetVars, after_queue,
                   btn_state>>

\* SceneConverterGUI._convert_scene: the convert button is disabled and the
\* worker thread started; the directory buttons stay enabled
ConvertScene ==
    /\ btn_state = "normal"
    /\ pipeline = "scene"
    /\ btn_state' = "disabled"
    /\ workers' = workers + 1
    /\ pc' = "start"
    /\ UNCHANGED <<convertVars, graphVars, outputVars, sceneVars, log, prefab_dirs,
                   prefab_files, success_count, returned, assetVars, after_queue>>

\* the scenes: a GameObject marked as an instance of a prefab named Tree or Rock
\* whose guid is in a .meta file or not, and in some a PrefabInstance block
GuiScenes ==
    {<<GameObjectBlock("g1", n, "t1", [fileID |-> "500", guid |-> ""], g, ""),
       NodeTransformBlock(1, [m_Father |-> "0", m_Children |-> <<>>])>> \o p :
        n \in {"Tree (1)", "Rock"}, g \in InstanceGuids,
        p \in {<<>>, <<PrefabInstanceBlock("p1", "guid_prefab", "0", "Tree",
                                           <<4 * One, 0, 0>>)>>}}

\* the conversion in progress: the worker thread is between its start and the
\* writing of the level
Converting == pc \in {"start", "built", "processed"}

GuiInit ==
    /\ pc = "idle"
    /\ pipeline = "scene"
    /\ file \in GuiScenes
    /\ game_objects = EmptyDict
    /\ go_order = <<>>
    /\ transform_map = EmptyDict
    /\ guid_to_path = EmptyDict
    /\ OutputIdle
    /\ prefab_db = EmptyDb
    /\ prefab_instances = <<>>
    /\ prefab_references = EmptyDict
    /\ missing_prefabs = {}
    /\ entity_counter = SceneInitialCounter
    /\ instance_counter = SceneInitialCounter
    /\ level_data = NoData
    /\ ConvertIdle
    /\ RunIdle

GuiNext ==
    \/ AddPrefabDirectory
    \/ RemovePrefabDirectory
    \/ ClearPrefabDirectories
    \/ ConvertScene
    \/ ParseUnityScene
    \/ SceneProcessPrefabs
    \/ CreateO3deLevel

SpecGui == GuiInit /\ [][GuiNext]_vars

-----------------------------------------------------------------------------
(* A batch of prefabs that share meshes, materials and textures, run through *)
(* one IntegratedAssetProcessor with or without Blender                      *)

\* the asset index: an FBX and an OBJ mesh, two materials with textures (one
\* texture is used by both), a material that does not parse
SharedAssetIndex ==
    [g \in {"guid_mesh", "guid_obj", "guid_mat", "guid_moss", "guid_bad",
            "guid_tex", "guid_tex2"} |->
        CASE g = "guid_mesh" ->
               [name |-> "rock.fbx", stem |-> "rock", suffix |-> ".fbx", parses |-> FALSE]
          [] g = "guid_obj" ->
               [name |-> "crate.obj", stem |-> "crate", suffix |-> ".obj",
                parses |-> FALSE]
          [] g = "guid_mat" ->
               [name |-> "stone.mat", stem |-> "stone", suffix |-> ".mat",
                parses |-> TRUE, textures |-> <<"guid_tex">>]
          [] g = "guid_moss" ->
               [name |-> "moss.mat", stem |-> "moss", suffix |-> ".mat",
                parses |-> TRUE, textures |-> <<"guid_tex", "guid_tex2", LostGuid>>]
          [] g = "guid_bad" ->
               [name |-> "bad.mat", stem |-> "bad", suffix |-> ".mat", parses |-> FALSE]
          [] g = "guid_tex" ->
               [name |-> "stone.png", stem |-> "stone", suffix |-> ".png",
                parses |-> FALSE]
          [] g = "guid_tex2" ->
               [name |-> "moss.png", stem |-> "moss", suffix |-> ".png",
                parses |-> FALSE]]

\* a prefab of one GameObject with the mesh and the materials given
AssetFile(mesh, materials) ==
    <<PlainGameObjectBlock(1),
      NodeTransformBlock(1, [m_Father |-> "0", m_Children |-> <<>>]),
      ComponentBlock("m1", "MeshFilter", "g1", [m_Mesh |-> mesh]),
      ComponentBlock("r1", "MeshRenderer", "g1", [m_Materials |-> materials])>>

AssetFileSet ==
    {AssetFile("guid_mesh", <<"guid_mat">>),
     AssetFile("guid_mesh", <<"guid_mat", "guid_moss">>),
     AssetFile("guid_obj", <<"guid_bad", "guid_moss">>),
     AssetFile(LostGuid, <<LostGuid>>)}

\* the most prefabs of a batch that shares assets
MaxShared == 3

AssetBatches == UNION {[1..n -> AssetFileSet] : n \in 1..MaxShared}

AssetsInit ==
    /\ pc = "start"
    /\ pipeline = "integrated"
    /\ prefab_files \in AssetBatches
    /\ file = prefab_files[1]
    /\ game_objects = EmptyDict
    /\ go_order = <<>>
    /\ transform_map = EmptyDict
    /\ guid_to_path = SharedAssetIndex
    /\ entity_id_counter = InitialEntityCounter
    /\ prefab_data = NoData
    /\ result = FALSE
    /\ component_id = None
    /\ log = {}
    /\ prefab_dirs = <<>>
    /\ success_count = 0
    /\ returned = <<>>
    /\ blender_path \in {None, "blender"}
    /\ processed_materials = EmptyDict
    /\ processed_textures = EmptyDict
    /\ processed_meshes = EmptyDict
    /\ output_files = {}
    /\ copies = EmptyDict
    /\ GuiRunning
    /\ SceneIdle
    /\ ConvertIdle

AssetsNext ==
    \/ ParseUnityPrefab
    \/ IntegratedCreatePrefab
    \/ NextPrefab

SpecAssets == AssetsInit /\ [][AssetsNext]_vars

-----------------------------------------------------------------------------
(* The blocks of a file in every order, parsed and built in each pipeline    *)

\* a Transform block whose m_GameObject names an anchor no block of the file
\* has (the GameObject was stripped from the file)
OwnerlessTransformBlock ==
    TransformBlock("t4", "g4", "t1", <<>>, NodeTransform(3))

\* the blocks of the files, in the order Unity writes them: two or three nodes
\* with consistent links, the two nodes and a Transform without GameObject
\* record, and three nodes whose parent does not list them
PermutedBases ==
    {<<PlainGameObjectBlock(1),
       NodeTransformBlock(1, [m_Father |-> "0", m_Children |-> <<"t2">>]),
       PlainGameObjectBlock(2),
       NodeTransformBlock(2, [m_Father |-> "t1", m_Children |-> <<>>])>> \o extra :
        extra \in {<<>>, <<OwnerlessTransformBlock>>}}
    \cup {<<PlainGameObjectBlock(1),
            NodeTransformBlock(1, [m_Father |-> "0", m_Children |-> ch]),
            PlainGameObjectBlock(2),
            NodeTransformBlock(2, [m_Father |-> "t1", m_Children |-> <<>>]),
            PlainGameObjectBlock(3),
            NodeTransformBlock(3, [m_Father |-> "t1", m_Children |-> <<>>])>> :
        ch \in {<<"t2", "t3">>, <<>>}}

\* the sequences with the elements of seq in every order
Orders(seq) ==
    {[i \in DOMAIN seq |-> seq[p[i]]] : p \in Permutations(DOMAIN seq)}

PermutedFiles == UNION {Orders(base) : base \in PermutedBases}

PermutedInit ==
    /\ pc = "start"
    /\ pipeline \in Pipelines
    /\ file \in PermutedFiles
    /\ game_objects = EmptyDict
    /\ go_order = <<>>
    /\ transform_map = EmptyDict
    /\ guid_to_path = EmptyDict
    /\ ConvertIdle
    /\ OutputIdle
    /\ SceneIdle
    /\ RunIdle

PermutedNext == ParseUnityPrefab \/ ParseUnityScene \/ PrefabParseUnityPrefab

SpecPermuted == PermutedInit /\ [][PermutedNext]_vars

-----------------------------------------------------------------------------
(* One GameObject with a MeshRenderer of up to three material slots, run     *)
(* through process_prefab                                                    *)

\* the most material slots of the MeshRenderer
MaxSlots == 3

\* the asset index: two materials that convert, one whose .mat file does not
\* parse
MaterialIndex ==
    [g \in {"guid_mat", "guid_moss", "guid_bad"} |->
        CASE g = "guid_mat" ->
               [name |-> "stone.mat", stem |-> "stone", suffix |-> ".mat", parses |-> TRUE]
          [] g = "guid_moss" ->
               [name |-> "moss.mat", stem |-> "moss", suffix |-> ".mat", parses |-> TRUE]
          [] g = "guid_bad" ->
               [name |-> "bad.mat", stem |-> "bad", suffix |-> ".mat", parses |-> FALSE]]

\* what a slot of m_Materials can hold: the guid of a material that converts, of
\* one that does not, of no file of the project, or no guid ("{fileID: 0}")
SlotGuids == {"guid_mat", "guid_moss", "guid_bad", LostGuid, ""}

MaterialLists == UNION {[1..n -> SlotGuids] : n \in 0..MaxSlots}

MaterialFiles ==
    {<<PlainGameObjectBlock(1),
       NodeTransformBlock(1, [m_Father |-> "0", m_Children |-> <<>>]),
       ComponentBlock("r1", "MeshRenderer", "g1", [m_Materials |-> ms])>> :
        ms \in MaterialLists}

MaterialsInit ==
    /\ pc = "start"
    /\ pipeline = "integrated"
    /\ file \in MaterialFiles
    /\ game_objects = EmptyDict
    /\ go_order = <<>>
    /\ transform_map = EmptyDict
    /\ guid_to_path = MaterialIndex
    /\ entity_id_counter = InitialEntityCounter
    /\ prefab_data = NoData
    /\ result = FALSE
    /\ component_id = None
    /\ SceneIdle
    /\ ConvertIdle
    /\ RunIdle

MaterialsNext == ParseUnityPrefab \/ IntegratedCreatePrefab

SpecMaterials == MaterialsInit /\ [][MaterialsNext]_vars

-----------------------------------------------------------------------------
(* One GameObject of any scale, serialized by the entity creation of each   *)
(* pipeline                                                                  *)

\* UnityPrefabConverter._add_transform_component: translation, quaternion and
\* the mean of the converted scale as the one float 'Scale' (sum / 3.0, here
\* in fixed point)
PrefabTransformComponent(go) ==
    LET o3de_transform == PrefabConvert(go.transform).transform IN
    [type |-> "EditorTransformComponent", ParentEntity |-> "4294967295",
     TransformData |->
        [Translate |-> o3de_transform.position,
         Rotation |-> o3de_transform.rotation,
         Scale |-> (o3de_transform.scale[1] + o3de_transform.scale[2]
                    + o3de_transform.scale[3]) \div 3]]

\* UnityPrefabConverter.create_o3de_entity: the components of the entity
PrefabCreateEntity(go, o3de_id) ==
    LET conv == PrefabConvert(go.transform)
        c1 == Put(EmptyDict, "EditorTransformComponent", PrefabTransformComponent(go))
        c2 == PutIf(c1, conv.needs_nonuniform, "EditorNonUniformScaleComponent",
                    [type |-> "EditorNonUniformScaleComponent",
                     Scale |-> conv.transform.scale])
        c3 == PutIf(c2, go.mesh_guid \notin {None, ""}, "EditorMeshComponent",
                    [type |-> "EditorMeshComponent",
                     ModelAsset |-> <<"meshes/", go.mesh_guid, ".azmodel">>])
        c4 == PutIf(c3, go.material_guids # <<>>, "EditorMaterialComponent",
                    [type |-> "EditorMaterialComponent",
                     Materials |-> [i \in 1..Len(go.material_guids) |->
                        <<"materials/", go.material_guids[i], ".material">>]])
    IN  [Id |-> ToString(o3de_id), Name |-> go.name, Components |-> c4]

\* the scales of the serialized node: uniform, unit, and differing in one axis
\* or in the two outer axes only
EntityScales ==
    {<<x, y, z>> : x \in {One, 2 * One}, y \in {One, 2 * One, One + 5},
                   z \in {One, 2 * One, One + 18}}
EntityPositions == {<<0, 0, 0>>, <<One, 2 * One, 3 * One>>}
EntityNodes ==
    {GameObject("g1", "Node", Transform(p, <<0, 0, 0, One>>, s)) :
        p \in EntityPositions, s \in EntityScales}

EntityInit ==
    /\ pc = "input"
    /\ pipeline \in Pipelines
    /\ file = <<>>
    /\ game_objects \in {[k \in {"g1"} |-> go] : go \in EntityNodes}
    /\ go_order = <<"g1">>
    /\ transform_map = EmptyDict
    /\ guid_to_path = EmptyDict
    /\ entity_id_counter = InitialEntityCounter
    /\ prefab_data = NoData
    /\ result = FALSE
    /\ component_id = None
    /\ prefab_db = EmptyDict
    /\ prefab_instances = <<>>
    /\ prefab_references = EmptyDict
    /\ missing_prefabs = {}
    /\ entity_counter = SceneInitialCounter
    /\ instance_counter = SceneInitialCounter
    /\ level_data = NoData
    /\ ConvertIdle
    /\ RunIdle

\* _create_entity_recursive of the integrated pipeline on the node
IntegratedCreateEntity ==
    /\ pc = "input"
    /\ pipeline = "integrated"
    /\ pc' = "emitted"
    /\ LET r == CreateEntityRecursive(game_objects["g1"],
                    WalkEnv(game_objects, guid_to_path), "ContainerEntity",
                    SerializerState(entity_id_counter), Len(go_order))
       IN  /\ entity_id_counter' = r.st.entity_id_counter
           /\ prefab_data' = [Entities |-> r.st.entities]
    /\ UNCHANGED <<convertVars, graphVars, result, component_id, sceneVars, log,
                   runVars>>

\* _create_entity_recursive of the scene pipeline on the node
SceneCreateEntity ==
    /\ pc = "input"
    /\ pipeline = "scene"
    /\ pc' = "emitted"
    /\ LET r == SceneCreateEntityRecursive(game_objects["g1"],
                    [game_objects |-> game_objects,
                     prefab_references |-> prefab_references], LevelContainerId,
                    LevelState(entity_counter, instance_counter), Len(go_order))
       IN  /\ entity_counter' = r.st.entity_counter
           /\ level_data' = [Entities |-> r.st.entities]
    /\ UNCHANGED <<convertVars, graphVars, outputVars, prefab_db, prefab_instances,
                   prefab_references, missing_prefabs, instance_counter, log,
                   runVars>>

\* create_o3de_entity of the prefab converter on the node
PrefabCreateO3deEntity ==
    /\ pc = "input"
    /\ pipeline = "prefab"
    /\ pc' = "emitted"
    /\ entity_counter' = entity_counter + 1
    /\ prefab_data' =
         [Entities |-> Put(EmptyDict, ToString(entity_counter),
                           PrefabCreateEntity(game_objects["g1"], entity_counter))]
    /\ UNCHANGED <<convertVars, graphVars, entity_id_counter, result, component_id,
                   prefab_db, prefab_instances, prefab_references, missing_prefabs,
                   instance_counter, level_data, log, runVars>>

EntityNext == IntegratedCreateEntity \/ SceneCreateEntity \/ PrefabCreateO3deEntity

SpecEntity == EntityInit /\ [][EntityNext]_vars

-----------------------------------------------------------------------------
(* The start buttons of the two windows: the worker thread each starts, the   *)
(* callbacks the worker hands to the Tk main loop, and the loop running them  *)

\* the scenes of the button check: the scenes of SpecGui and one whose second
\* block makes its handler raise
ButtonScenes == GuiScenes \cup {<<PlainGameObjectBlock(1), MalformedBlock("x1")>>}

\* the source folders of the button check: a file that converts, a file that
\* fails after one that converts, a walk that never ends before two roots
ButtonBatches ==
    {<<BatchTreeFile>>, <<BatchTreeFile, BatchMalformedFile>>,
     <<BatchCycleFile, BatchTwoRootsFile>>}

\* the most entity ids the converter of the scene window has drawn when a
\* further conversion is started
MaxDrawn == 2

\* IntegratedProcessorGUI._process_assets with the source and output folders
\* picked: the process button is disabled and the worker thread started
GuiProcessAssets ==
    /\ btn_state = "normal"
    /\ pipeline = "integrated"
    /\ btn_state' = "disabled"
    /\ workers' = workers + 1
    /\ pc' = "spawned"
    /\ UNCHANGED <<convertVars, graphVars, outputVars, sceneVars, log, prefab_dirs,
                   prefab_files, success_count, returned, assetVars, after_queue>>

\* the head of _do_processing: a new IntegratedAssetProcessor, whose __init__
\* creates the output folders (mkdir raises OSError where it cannot), and the
\* first file of the loop
CreateProcessor ==
    /\ pc = "spawned"
    /\ pipeline = "integrated"
    /\ \E mkdir_ok \in BOOLEAN :
          IF mkdir_ok
          THEN /\ pc' = "start"
               /\ file' = prefab_files[1]
               /\ game_objects' = EmptyDict
               /\ go_order' = <<>>
               /\ transform_map' = EmptyDict
               /\ entity_id_counter' = InitialEntityCounter
               /\ result' = FALSE
               /\ success_count' = 0
               /\ returned' = <<>>
               /\ processed_materials' = EmptyDict
               /\ processed_textures' = EmptyDict
               /\ processed_meshes' = EmptyDict
               /\ copies' = EmptyDict
               /\ UNCHANGED log
          ELSE /\ pc' = "failed"
               /\ log' = log \cup {LogLine("ERROR: Processing failed", "OSError")}
               /\ UNCHANGED <<file, game_objects, go_order, transform_map,
                              entity_id_counter, result, success_count, returned,
                              processed_materials, processed_textures,
                              processed_meshes, copies>>
    /\ UNCHANGED <<convertVars, pipeline, guid_to_path, prefab_data, component_id,
                   sceneVars, prefab_dirs, prefab_files, blender_path, output_files,
                   guiVars>>

\* the worker has left the try block of _do_conversion / _do_processing
WorkerReturning ==
    \/ pipeline = "scene" /\ pc = "done"
    \/ pipeline = "integrated" /\ pc \in {"finished", "failed"}

\* the worker left the try block by an exception
WorkerRaised ==
    \/ pipeline = "scene" /\ \E l \in log : l.msg = "ERROR: Conversion failed"
    \/ pipeline = "integrated" /\ pc = "failed"

\* the end of _do_conversion / _do_processing: the success dialog at the end of
\* the try block or the error dialog of the except clause, then the finally
\* clause, each handed to the main loop by root.after(0, ...); the thread ends
FinishWorker ==
    /\ WorkerReturning
    /\ workers > 0
    /\ after_queue' = after_queue
                       \o <<IF WorkerRaised THEN "showerror" ELSE "showinfo", "normal">>
    /\ workers' = workers - 1
    /\ pc' = "ended"
    /\ UNCHANGED <<convertVars, graphVars, outputVars, sceneVars, log, prefab_dirs,
                   prefab_files, success_count, returned, assetVars, btn_state>>

\* the Tk main loop runs the oldest callback: a dialog shown and dismissed, or
\* the button configured
RunAfterCallback ==
    /\ after_queue # <<>>
    /\ after_queue' = Tail(after_queue)
    /\ btn_state' = IF Head(after_queue) = "normal" THEN "normal" ELSE btn_state
    /\ UNCHANGED <<pc, convertVars, graphVars, outputVars, sceneVars, log, prefab_dirs,
                   prefab_files, success_count, returned, assetVars, workers>>

\* the scene window: the converter made by __init__, the scene picked
SceneButtonInit ==
    /\ pipeline = "scene"
    /\ file \in ButtonScenes
    /\ guid_to_path = EmptyDict
    /\ prefab_db = EmptyDb
    /\ prefab_files = <<>>

\* the processor window: the source folder picked
IntegratedButtonInit ==
    /\ pipeline = "integrated"
    /\ prefab_files \in ButtonBatches
    /\ file = <<>>
    /\ guid_to_path = AssetIndex
    /\ prefab_db = EmptyDict

ButtonInit ==
    /\ pc = "idle"
    /\ SceneButtonInit \/ IntegratedButtonInit
    /\ game_objects = EmptyDict
    /\ go_order = <<>>
    /\ transform_map = EmptyDict
    /\ OutputIdle
    /\ prefab_instances = <<>>
    /\ prefab_references = EmptyDict
    /\ missing_prefabs = {}
    /\ entity_counter = SceneInitialCounter
    /\ instance_counter = SceneInitialCounter
    /\ level_data = NoData
    /\ ConvertIdle
    /\ log = {} /\ prefab_dirs = <<>> /\ success_count = 0 /\ returned = <<>>
    /\ AssetsIdle
    /\ GuiIdle

\* the steps of the worker thread
WorkerNext ==
    \/ ParseUnityScene
    \/ SceneProcessPrefabs
    \/ CreateO3deLevel
    \/ CreateProcessor
    \/ ParseUnityPrefab
    \/ IntegratedCreatePrefab
    \/ NextPrefab
    \/ FinishWorker

ButtonNext ==
    \/ entity_counter < SceneInitialCounter + MaxDrawn /\ ConvertScene
    \/ GuiProcessAssets
    \/ WorkerNext
    \/ RunAfterCallback

SpecButton == ButtonInit /\ [][ButtonNext]_vars

\* the positions a step of the worker thread leads to
WorkerPositions == {"start", "built", "processed", "done", "finished", "failed", "ended"}

\* a step of a worker thread that has started and not ended: each of the steps
\* of WorkerNext moves the thread to another position
WorkerStep == workers > 0 /\ pc' \in WorkerPositions /\ pc' # pc

\* the thread started is scheduled until it ends, and the main loop comes to
\* every callback it was handed
FairSpecButton ==
    SpecButton /\ WF_pc(WorkerStep) /\ WF_after_queue(RunAfterCallback)

-----------------------------------------------------------------------------
(* Properties of CoordinateTransform (checked under SpecConvert)           *)

\* C7: for every input transform, convert maps position (x,y,z) to (-x,z,y),
\* rotation (qx,qy,qz,qw) to (-qx,qz,qy,qw) with the scalar part unchanged and
\* scale (sx,sy,sz) to (sx,sz,sy), and the three pipelines return the same result.
C7_ConvertRemap ==
    pc = "converted" =>
        LET t == unity_transform IN
        /\ \A p \in Pipelines :
              /\ converted[p].transform.position =
                    <<-t.position[1], t.position[3], t.position[2]>>
              /\ converted[p].transform.rotation =
                    <<-t.rotation[1], t.rotation[3], t.rotation[2], t.rotation[4]>>
              /\ converted[p].transform.scale =
                    <<t.scale[1], t.scale[3], t.scale[2]>>
        /\ converted["integrated"] = converted["scene"]
        /\ converted["scene"] = converted["prefab"]

\* a converted transform whose three parts are all changed by the remap
C7_Witness ==
    /\ pc = "converted"
    /\ unity_transform.position = <<One, 2 * One, 3 * One>>
    /\ unity_transform.scale = <<One, One + 9, 2 * One>>
    /\ converted["prefab"].transform.position = <<-One, 3 * One, 2 * One>>
    /\ converted["prefab"].transform.scale = <<One, 2 * One, One + 9>>

\* some pair of components of s differs by more than the tolerance
SomePairBeyondTolerance(s) ==
    \/ Abs(s[1] - s[2]) > Tolerance
    \/ Abs(s[2] - s[3]) > Tolerance
    \/ Abs(s[1] - s[3]) > Tolerance

\* C8: convert flags the scale as non-uniform whenever any pair of the converted
\* scale components (x-y, y-z or x-z) differs by more than the tolerance 1e-4, and
\* does not flag it when every pair is within the tolerance.
C8_NonUniformAnyPair ==
    pc = "converted" =>
        \A p \in Pipelines :
            converted[p].needs_nonuniform
                <=> SomePairBeyondTolerance(converted[p].transform.scale)

\* the inverse axis permutation of the remap (the remap is its own inverse)
InversePosition(p) == <<-p[1], p[3], p[2]>>
InverseScale(s) == <<s[1], s[3], s[2]>>
InverseRotation(q) == <<-q[1], q[3], q[2], q[4]>>
Negated(q) == <<-q[1], -q[2], -q[3], -q[4]>>

\* C9: applying convert and then the inverse axis permutation recovers the original
\* position and scale exactly and the original quaternion up to sign.
C9_RoundTrip ==
    pc = "converted" =>
        LET c == converted["integrated"].transform IN
        /\ InversePosition(c.position) = unity_transform.position
        /\ InverseScale(c.scale) = unity_transform.scale
        /\ \/ InverseRotation(c.rotation) = unity_transform.rotation
           \/ InverseRotation(c.rotation) = Negated(unity_transform.rotation)

\* a round trip over a transform whose Y and Z differ in position and scale
C9_Witness ==
    /\ pc = "converted"
    /\ unity_transform.position[2] # unity_transform.position[3]
    /\ unity_transform.scale[2] # unity_transform.scale[3]
    /\ converted["integrated"].transform.scale # unity_transform.scale
    /\ InverseScale(converted["integrated"].transform.scale) = unity_transform.scale

-----------------------------------------------------------------------------
(* Properties of the PhysX component synthesis (checked under SpecPhysx)   *)

\* the GameObject of the physics runs, its primary entity and the other entities
PhysGo == game_objects["g1"]
PrimaryId == prefab_data.ContainerEntity.ChildEntityOrder[1]
Primary == prefab_data.Entities[PrimaryId]
SyntheticIds == (DOMAIN prefab_data.Entities) \ {PrimaryId}

\* the collider attachments an entity holds
ColliderComponents == {"EditorShapeColliderComponent", "EditorMeshColliderComponent"}
ColliderCount(entity) == Cardinality(ColliderComponents \cap DOMAIN entity.Components)

Written == pc = "done" /\ result = TRUE

\* C4: a source node with N >= 1 colliders yields exactly 1 primary entity plus N-1
\* synthetic child entities named '{parentName}_Collider_{index}' (index 1..N-1);
\* each of the N entities holds exactly one collider, each synthetic child's Parent
\* Entity is the primary entity's identifier, and no output entity holds more than
\* one collider.
C4_ColliderFanOut ==
    Written =>
        LET N == Len(PhysGo.colliders) IN
        /\ \A id \in DOMAIN prefab_data.Entities :
              ColliderCount(prefab_data.Entities[id]) <= 1
        /\ N >= 1 =>
              /\ Cardinality(DOMAIN prefab_data.Entities) = N
              /\ Primary.Name = PhysGo.name
              /\ ColliderCount(Primary) = 1
              /\ {prefab_data.Entities[id].Name : id \in SyntheticIds}
                    = {PhysGo.name \o "_Collider_" \o ToString(i) : i \in 1..(N - 1)}
              /\ \A id \in SyntheticIds :
                    /\ ColliderCount(prefab_data.Entities[id]) = 1
                    /\ prefab_data.Entities[id].Components["TransformComponent"].ParentEntity
                          = PrimaryId

\* three colliders fanned out into the primary and two children
C4_Witness ==
    /\ Written
    /\ Len(PhysGo.colliders) = 3
    /\ Cardinality(SyntheticIds) = 2
    /\ \E id \in SyntheticIds : prefab_data.Entities[id].Name = "Rock_Collider_2"

\* C5: for every source node with at least one collider the primary entity carries
\* the static-body marker iff the source declared no rigidbody and a dynamic
\* rigid-body component iff it did; no primary entity carries both, and a node with
\* neither collider nor rigidbody gets neither.
C5_StaticOrDynamicBody ==
    Written =>
        LET static  == "EditorStaticRigidBodyComponent" \in DOMAIN Primary.Components
            dynamic == "EditorRigidBodyComponent" \in DOMAIN Primary.Components
        IN  /\ ~(static /\ dynamic)
            /\ Len(PhysGo.colliders) >= 1 =>
                  /\ static <=> ~PhysGo.has_rigidbody
                  /\ dynamic <=> PhysGo.has_rigidbody
            /\ (Len(PhysGo.colliders) = 0 /\ ~PhysGo.has_rigidbody) => (~static /\ ~dynamic)

\* a node with colliders and a rigidbody: dynamic body, no static marker
C5_Witness ==
    /\ Written
    /\ Len(PhysGo.colliders) = 2
    /\ PhysGo.has_rigidbody
    /\ "EditorRigidBodyComponent" \in DOMAIN Primary.Components
    /\ "EditorStaticRigidBodyComponent" \notin DOMAIN Primary.Components

\* the translation the claim states: source bit -> target lock flag
ClaimedLocks ==
    {<<2, "Lock Linear X">>, <<4, "Lock Linear Z">>, <<8, "Lock Linear Y">>,
     <<16, "Lock Angular X">>, <<32, "Lock Angular Z">>, <<64, "Lock Angular Y">>}

\* C6: the rigidbody constraint bitmask is translated bit by bit with Y and Z
\* swapped (2 -> Lock Linear X, 4 -> Lock Linear Z, 8 -> Lock Linear Y, 16 -> Lock
\* Angular X, 32 -> Lock Angular Z, 64 -> Lock Angular Y); a lock flag is set iff
\* its source bit is set, so the mask 4 yields Lock Linear Z and no other lock.
C6_ConstraintRemap ==
    (Written /\ PhysGo.has_rigidbody) =>
        LET config == Primary.Components["EditorRigidBodyComponent"].Configuration IN
        \A lock \in ClaimedLocks :
            (lock[2] \in DOMAIN config) <=> BitSet(PhysGo.rigidbody_data.constraints, lock[1])

\* only the lock-Y-translation bit set: Lock Linear Z and no other lock flag
C6_Witness ==
    /\ Written
    /\ PhysGo.has_rigidbody
    /\ PhysGo.rigidbody_data.constraints = 4
    /\ LET config == Primary.Components["EditorRigidBodyComponent"].Configuration IN
         {lock[2] : lock \in ClaimedLocks} \cap DOMAIN config = {"Lock Linear Z"}

-----------------------------------------------------------------------------
(* Properties of the build pass (checked under SpecHierarchy)              *)

\* the Transform blocks of the file
TransformBlocks == {file[i] : i \in {j \in DOMAIN file : file[j].kind = "Transform"}}

\* the anchors the file's Transform blocks have
DeclaredAnchors == {b.anchor : b \in TransformBlocks}

\* the GameObject that owns the Transform block anchored a
OwnerOf(a) == (CHOOSE b \in TransformBlocks : b.anchor = a).m_GameObject

\* the nodes above k in the parent relation, at most fuel steps up
RECURSIVE Ancestors(_, _, _)
Ancestors(gos, k, fuel) ==
    IF fuel = 0 \/ gos[k].parent_id \notin DOMAIN gos THEN {}
    ELSE {gos[k].parent_id} \cup Ancestors(gos, gos[k].parent_id, fuel - 1)

Acyclic(gos) == \A k \in DOMAIN gos : k \notin Ancestors(gos, k, Cardinality(DOMAIN gos))

NullParents(gos) == {k \in DOMAIN gos : gos[k].parent_id = None}

\* C1: after the build pass the parent relation over the GameObjects is acyclic
\* and exactly one GameObject has a null parent.
C1_SingleRootedTree ==
    pc = "built" => Acyclic(game_objects) /\ Cardinality(NullParents(game_objects)) = 1

\* the GameObjects whose children list holds k
ListedUnder(gos, k) == {n \in DOMAIN gos : k \in Range(gos[n].children_ids)}

\* Transform block b declares a parent that exists while the Transform block c
\* of another node lists b among its children
Disagree(b, c) ==
    /\ b.m_Father \in DeclaredAnchors
    /\ c.anchor # b.m_Father
    /\ b.anchor \in Range(c.m_Children)

\* C2: when a node's m_Father and another node's m_Children disagree about the
\* node's parent, after the build pass the node's parent_id is the declared
\* parent and only the declared parent lists the node as a child.
C2_DeclaredParentWins ==
    (pc = "built" /\ pipeline \in {"integrated", "scene"}) =>
        \A b \in TransformBlocks, c \in TransformBlocks :
            Disagree(b, c) =>
                /\ game_objects[OwnerOf(b.anchor)].parent_id = OwnerOf(b.m_Father)
                /\ ListedUnder(game_objects, OwnerOf(b.anchor)) = {OwnerOf(b.m_Father)}

\* C3: after the build pass a node whose declared parent anchor resolves to no
\* node has a null parent_id, and no children list holds an anchor that resolves
\* to no node.
C3_DanglingDropped ==
    pc = "built" =>
        /\ \A b \in TransformBlocks :
              (b.m_Father # "0" /\ b.m_Father \notin DeclaredAnchors) =>
                  game_objects[OwnerOf(b.anchor)].parent_id = None
        /\ \A k \in DOMAIN game_objects :
              Range(game_objects[k].children_ids) \subseteq DOMAIN game_objects

-----------------------------------------------------------------------------
(* Properties of nested prefab instances (checked under SpecInstances)     *)

\* the document the run wrote: the level of the scene pipeline, the prefab of
\* the integrated one
OutputDocument == IF pipeline = "scene" THEN level_data ELSE prefab_data

\* the nested-instance nodes no prefab was found for: in the scene pipeline
\* those without a prefab reference, in the integrated one those whose guid
\* names no .prefab file
UnresolvedInstances ==
    {k \in DOMAIN game_objects :
        /\ game_objects[k].is_prefab_instance
        /\ IF pipeline = "scene" THEN k \notin DOMAIN prefab_references
           ELSE ~ /\ game_objects[k].prefab_source_guid \in DOMAIN guid_to_path
                  /\ guid_to_path[game_objects[k].prefab_source_guid].suffix = ".prefab"}

\* the conversion the pipeline applies
PipelineConvert(t) == IF pipeline = "scene" THEN SceneConvert(t) ELSE IntegratedConvert(t)

\* entity is the plain entity of go: its name and its converted translation
PlainEntityOf(entity, go) ==
    /\ entity.Name = go.name
    /\ "TransformData" \in DOMAIN entity.Components["TransformComponent"]
    /\ "Translate" \in DOMAIN entity.Components["TransformComponent"].TransformData
    /\ entity.Components["TransformComponent"].TransformData.Translate
         = PipelineConvert(go.transform).transform.position

\* the document holds a plain entity for go
EmittedPlain(doc, go) ==
    /\ doc # NoData
    /\ \E e \in DOMAIN doc.Entities : PlainEntityOf(doc.Entities[e], go)

\* C10: a nested-instance node whose guid and name both fail to resolve is in
\* the output as a plain entity with its converted transform, wherever it is in
\* the hierarchy, and its name is in the scene converter's missing_prefabs.
C10_MissingReferenceDegrades ==
    pc = "done" =>
        \A k \in UnresolvedInstances :
            /\ EmittedPlain(OutputDocument, game_objects[k])
            /\ pipeline = "scene" => MissingName(game_objects[k]) \in missing_prefabs

-----------------------------------------------------------------------------
(* Resolution order                                                        *)

\* the first of the steps that is not None, None when there is none
RECURSIVE FirstMatch(_)
FirstMatch(steps) ==
    IF steps = <<>> THEN None
    ELSE IF Head(steps) # None THEN Head(steps) ELSE FirstMatch(Tail(steps))

\* the four steps for a guid and a display name: the guid, the name, the name
\* without its trailing parenthesized integer, the name without its last token
ResolutionSteps(db, guid, name) ==
    <<Get(db.prefab_guids, guid), Get(db.prefab_paths, name),
      Get(db.prefab_paths, CleanName(name)), Get(db.prefab_paths, BaseName(name))>>

\* the GameObjects of the scene that are instances of a prefab
MarkedInstances == {k \in DOMAIN game_objects : game_objects[k].is_prefab_instance}

\* C11: the prefab an instance resolves to is the first match of guid, exact
\* name, name without trailing parenthesized integer, name without last token,
\* and the instance is left unresolved only when none of them matches.
C11_ResolutionOrder ==
    (pipeline = "scene" /\ pc \in {"processed", "done"}) =>
        \A k \in MarkedInstances :
            Get(prefab_references, k) =
                FirstMatch(ResolutionSteps(prefab_db, game_objects[k].prefab_source_guid,
                                           game_objects[k].name))

\* a GameObject resolved by the third step although the fourth matches another
\* prefab, and an instance resolved by its guid although its name matches
\* another prefab
C11_Witness ==
    /\ pipeline = "scene" /\ pc = "processed"
    /\ \E k \in MarkedInstances :
          LET steps == ResolutionSteps(prefab_db, game_objects[k].prefab_source_guid,
                                       game_objects[k].name)
          IN  /\ steps[1] = None /\ steps[2] = None
              /\ steps[3] # None /\ steps[4] # None /\ steps[3] # steps[4]
              /\ prefab_references[k] = steps[3]
    /\ \E k \in MarkedInstances :
          LET steps == ResolutionSteps(prefab_db, game_objects[k].prefab_source_guid,
                                       game_objects[k].name)
          IN  /\ steps[1] # None /\ steps[2] # None /\ steps[1] # steps[2]
              /\ prefab_references[k] = steps[1]


-----------------------------------------------------------------------------
(* Identifiers                                                             *)

\* the counter values a conversion may have handed out so far
CounterValues ==
    IF pipeline = "scene"
    THEN SceneInitialCounter ..
             (IF entity_counter > instance_counter THEN entity_counter
              ELSE instance_counter)
    ELSE InitialEntityCounter .. entity_id_counter

\* C12: the entities and the instances of the written document were numbered
\* from one increasing counter, so no counter value names both an entity and an
\* instance.
C12_CounterValuesNotShared ==
    (pc = "done" /\ OutputDocument # NoData) =>
        \A n \in CounterValues :
            ~ /\ EntityIdOf(n) \in DOMAIN OutputDocument.Entities
              /\ InstanceIdOf(n) \in DOMAIN OutputDocument.Instances

-----------------------------------------------------------------------------
(* Child order                                                             *)

\* 'Child Entity Order' of entity e of the written document, empty when the
\* entity has no EditorEntitySortComponent
ChildOrderOf(e) ==
    IF "EditorEntitySortComponent" \in DOMAIN OutputDocument.Entities[e].Components
    THEN OutputDocument.Entities[e].Components["EditorEntitySortComponent"].ChildEntityOrder
    ELSE <<>>

\* the emitted children of entity e: the entities whose Parent Entity is e and
\* the instances patched to be below e
EmittedChildren(e) ==
    {x \in DOMAIN OutputDocument.Entities :
        OutputDocument.Entities[x].Components["TransformComponent"].ParentEntity = e}
    \cup {i \o "/ContainerEntity" :
            i \in {j \in DOMAIN OutputDocument.Instances :
                     OutputDocument.Instances[j].Patches[1].value = "../" \o e}}

\* the collider index of child x of entity e, 0 when x is no collider sub-entity
ColliderIndexOf(e, x) ==
    LET idxs == {idx \in 1..(MaxColliders + 1) :
                   /\ x \in DOMAIN OutputDocument.Entities
                   /\ OutputDocument.Entities[x].Name =
                        OutputDocument.Entities[e].Name \o "_Collider_" \o ToString(idx)}
    IN  IF idxs = {} THEN 0 ELSE CHOOSE idx \in idxs : TRUE

\* the names of the nodes that the Transform of the node called name lists in
\* m_Children, in that order
ListedSiblings(name) ==
    LET i == CHOOSE j \in DOMAIN NodeNames : NodeNames[j] = name
        t == CHOOSE b \in TransformBlocks : b.anchor = TransformAnchors[i]
    IN  [c \in DOMAIN t.m_Children |->
            NodeNames[CHOOSE j \in DOMAIN TransformAnchors :
                        TransformAnchors[j] = t.m_Children[c]]]

\* child ids a and b of e are real children whose nodes m_Children lists in the
\* other order
AgainstSource(e, a, b) ==
    /\ OutputDocument.Entities[e].Name \in Range(NodeNames)
    /\ a \in DOMAIN OutputDocument.Entities /\ b \in DOMAIN OutputDocument.Entities
    /\ LET sib == ListedSiblings(OutputDocument.Entities[e].Name) IN
       \E i, j \in DOMAIN sib :
          /\ j < i
          /\ sib[i] = OutputDocument.Entities[a].Name
          /\ sib[j] = OutputDocument.Entities[b].Name

\* C13: 'Child Entity Order' of every entity lists each of its emitted children
\* once and nothing else, the real children before the collider sub-entities,
\* the real children as m_Children orders them and the collider sub-entities by
\* collider index.
C13_ChildOrderIsTraversalOrder ==
    (pc = "done" /\ OutputDocument # NoData) =>
        \A e \in DOMAIN OutputDocument.Entities :
            LET order == ChildOrderOf(e) IN
            /\ Range(order) = EmittedChildren(e)
            /\ Cardinality(EmittedChildren(e)) = Len(order)
            /\ \A i, j \in DOMAIN order :
                  i < j =>
                    /\ ColliderIndexOf(e, order[i]) > 0 =>
                          ColliderIndexOf(e, order[i]) < ColliderIndexOf(e, order[j])
                    /\ ~AgainstSource(e, order[i], order[j])

\* an entity whose order holds two real children, listed as m_Children lists
\* them, and then two collider sub-entities, which were numbered before them
C13_Witness ==
    /\ pc = "done" /\ pipeline = "integrated" /\ OutputDocument # NoData
    /\ \E e \in DOMAIN OutputDocument.Entities :
          LET order == ChildOrderOf(e) IN
          /\ Len(order) = 4
          /\ AgainstSource(e, order[2], order[1])
          /\ ColliderIndexOf(e, order[1]) = 0 /\ ColliderIndexOf(e, order[2]) = 0
          /\ ColliderIndexOf(e, order[3]) = 1 /\ ColliderIndexOf(e, order[4]) = 2
          /\ order[1] = EntityIdOf(InitialEntityCounter + 4)
          /\ order[3] = EntityIdOf(InitialEntityCounter + 2)

-----------------------------------------------------------------------------
(* Skipped items                                                           *)

\* the blocks of the file that parse
WellFormed(blocks) == SelectSeq(blocks, LAMBDA b : b.kind # "Unparseable")

\* the GameObjects the build pass of pipeline pl leaves for a file
GraphOf(pl, blocks) ==
    CASE pl = "integrated" ->
           IntegratedBuildHierarchy(ParseBlocks(blocks, 1, ParserState, pl, EmptyDict))
      [] pl = "scene" ->
           SceneBuildHierarchy(ParseBlocks(blocks, 1, ParserState, pl,
                                           PrefabInstanceGuids(blocks)))
      [] pl = "prefab" ->
           PrefabBuildHierarchy(ParseBlocks(blocks, 1, ParserState, pl, EmptyDict))

\* the lines of the log that name subject
LinesAbout(subject) == {l \in log : l.arg = subject}

\* C14: after the parse of a file with a block that does not parse, the graph
\* is the one of the file's other blocks, and a warning names the block.
C14_UnparseableBlockSkipped ==
    pc = "built" =>
        /\ game_objects = GraphOf(pipeline, WellFormed(file))
        /\ \A b \in Unparseable(file) : LinesAbout(b.anchor) # {}

\* the mesh and material guids of the GameObjects that the integrated processor
\* finds no asset for, each as the set of texts a report could name it by
UnresolvedAssets ==
    IF pipeline # "integrated" THEN {}
    ELSE {{g} : g \in {h \in AllMeshGuids(game_objects) :
                         h \notin DOMAIN MeshMapping(game_objects, guid_to_path)}}
         \cup {{g} : g \in {h \in AllMaterialGuids(game_objects) :
                              h \notin DOMAIN MaterialMapping(game_objects, guid_to_path)}}

\* the GameObjects that are neither an entity nor an instance of the written
\* document, named by file_id or by name
LeftOutNodes ==
    {{k, game_objects[k].name} :
        k \in {x \in DOMAIN game_objects :
                 /\ ~game_objects[x].is_prefab_instance
                 /\ \A e \in DOMAIN OutputDocument.Entities :
                       OutputDocument.Entities[e].Name # game_objects[x].name}}

\* the items a run skipped: blocks that do not parse, assets and nested prefabs
\* that do not resolve, nodes left out
SkippedItems ==
    {{b.anchor} : b \in Unparseable(file)}
    \cup UnresolvedAssets
    \cup {{k, game_objects[k].name, game_objects[k].prefab_source_guid} :
             k \in UnresolvedInstances}
    \cup LeftOutNodes

\* a line of the log names the item, or the item is a parentless node and the
\* log has the warning that counts the parentless nodes
Reported(item) ==
    \/ \E id \in item : LinesAbout(id) # {}
    \/ /\ \E l \in log : l.msg = "Multiple root GameObjects found, using first one"
       /\ \E k \in item \cap DOMAIN game_objects : game_objects[k].parent_id = None

\* C15: when a document was written, the log reports every item the run
\* skipped.
C15_NothingDroppedSilently ==
    (pc = "done" /\ OutputDocument # NoData) =>
        \A item \in SkippedItems : Reported(item)

\* the files of a batch that cannot be converted: no GameObjects, no root, a
\* handler that raises while parsing, a walk that exceeds the recursion limit
FailingFiles == {BatchEmptyFile, BatchNoRootFile, BatchCycleFile, BatchMalformedFile}

\* the files of the batch that process_prefab has returned True for
Successes == {i \in DOMAIN returned : returned[i] = TRUE}

\* the states in which the loop of _do_processing has a step to take: a file to
\* parse, a parsed file to write, or a returned file to count
LoopGoesOn ==
    \/ pc \in {"start", "built"}
    \/ pc = "done" /\ Len(returned) < Len(prefab_files)

\* C16: a file that fails never aborts the batch.  process_prefab returns False
\* for a file without GameObjects, without a root, or with an error raised
\* while parsing or serializing, and True for the others whatever came before
\* them; while files are left the loop goes on; at the end every file has been
\* processed and the reported count is the number of files that returned True.
C16_BatchNeverAborted ==
    /\ \A i \in DOMAIN returned : returned[i] = (prefab_files[i] \notin FailingFiles)
    /\ success_count = Cardinality(Successes)
    /\ pc = "done" => result \in BOOLEAN
    /\ pc # "finished" => LoopGoesOn
    /\ pc = "finished" =>
          /\ Len(returned) = Len(prefab_files)
          /\ LogLine("Prefabs processed",
                     ToString(Cardinality(Successes)) \o "/"
                     \o ToString(Len(prefab_files))) \in log

\* a batch of three whose first file raises while parsing, whose second cannot
\* be serialized, and whose third is converted and counted
C16_Witness ==
    /\ pc = "finished"
    /\ prefab_files = <<BatchMalformedFile, BatchCycleFile, BatchTreeFile>>
    /\ returned = <<FALSE, FALSE, TRUE>>
    /\ success_count = 1
    /\ LogLine("Error processing prefab", "AttributeError") \in log
    /\ LogLine("Error processing prefab", "maximum recursion depth exceeded") \in log

\* an entity without the identifiers the counter gave out: its own Id, the Id of
\* its parent, and the Ids of its children (of which the number is kept)
WithoutEntityIds(entity) ==
    [Name |-> entity.Name,
     Components |->
        [k \in DOMAIN entity.Components |->
            IF k = "TransformComponent"
            THEN [entity.Components[k] EXCEPT !.ParentEntity = ""]
            ELSE IF k = "EditorEntitySortComponent"
            THEN [entity.Components[k] EXCEPT
                     !.ChildEntityOrder = <<ToString(Len(@))>>]
            ELSE entity.Components[k]]]

\* the entity bodies of a written document
Bodies(doc) == {WithoutEntityIds(doc.Entities[id]) : id \in DOMAIN doc.Entities}

\* the step that writes a file's document when the file before it in the batch
\* was the same file and was written too
SecondRun ==
    /\ pc = "built" /\ pc' = "done" /\ result' = TRUE
    /\ returned # <<>>
    /\ returned[Len(returned)] = TRUE
    /\ prefab_files[Len(returned)] = file

\* what stays the same between the two documents but for the counter's
\* identifiers: names, transforms, asset hints, physics shapes
SameBodies == Bodies(prefab_data') = Bodies(prefab_data)

\* the second run's identifiers are new ones, and the counter did not go back
FreshCounters ==
    /\ DOMAIN prefab_data'.Entities \cap DOMAIN prefab_data.Entities = {}
    /\ entity_id_counter' > entity_id_counter

\* C17: converting the same file twice with the same asset index writes the
\* same document twice, apart from the entity and instance identifiers taken
\* from the counter, which are fresh in the second run: the entity bodies agree
\* and so do the Ids of their components.
C17_RerunIdentical ==
    [][SecondRun => SameBodies /\ FreshCounters /\ component_id' = component_id]_vars

\* C18: the PrefabDatabase is not changed while a conversion reads it.  From the
\* start of the worker thread to the writing of the level no step changes the
\* database the converter looks prefabs up in.
C18_DatabaseStableWhileConverting == [][Converting => prefab_db' = prefab_db]_vars

\* the anchors of the GameObject blocks of a file, in the order of the file
RECURSIVE GameObjectAnchors(_, _)
GameObjectAnchors(blocks, i) ==
    IF i > Len(blocks) THEN <<>>
    ELSE IF blocks[i].kind = "GameObject"
    THEN <<blocks[i].anchor>> \o GameObjectAnchors(blocks, i + 1)
    ELSE GameObjectAnchors(blocks, i + 1)

\* the parentless GameObjects of the graph in the order of their blocks
RootsInDocumentOrder ==
    SelectSeq(GameObjectAnchors(file, 1),
              LAMBDA a : a \in DOMAIN game_objects /\ game_objects[a].parent_id = None)

\* a prefab conversion has chosen its root: process_prefab has written the
\* document, or parse_unity_prefab has returned
RootChosen ==
    \/ pipeline = "integrated" /\ pc = "done" /\ result = TRUE
    \/ pipeline = "prefab" /\ pc = "built"

\* the GameObject the conversion took for the root
ChosenRoot == RootIds(go_order, game_objects)[1]

\* the warning about more than one root is in the log
WarnedOfRoots ==
    \E line \in log : line.msg = "Multiple root GameObjects found, using first one"

\* C19: when more than one GameObject of a prefab is left without a parent by
\* the build pass, the conversion takes the first of them in the order of the
\* document for the root, and logs a warning.
C19_FirstRootAndWarning ==
    (RootChosen /\ Len(RootsInDocumentOrder) > 1) =>
        /\ ChosenRoot = RootsInDocumentOrder[1]
        /\ pipeline = "integrated" =>
              prefab_data.Entities[prefab_data.ContainerEntity.ChildEntityOrder[1]].Name
                  = game_objects[RootsInDocumentOrder[1]].name
        /\ WarnedOfRoots

\* a written GameObject with one box collider and no rigidbody
OneBoxNoRigidbody ==
    /\ Written
    /\ pipeline = "integrated"
    /\ DOMAIN game_objects = {"g1"}
    /\ Len(PhysGo.colliders) = 1
    /\ PhysGo.colliders[1].type = "BoxCollider"
    /\ ~PhysGo.has_rigidbody

\* Unity (x,y,z) -> O3DE (-x,z,y)
Remapped(v) == <<-v[1], v[3], v[2]>>

\* the offset a configuration states, none written being no translation
OffsetIn(cfg, key) == IF key \in DOMAIN cfg THEN cfg[key] ELSE <<0, 0, 0>>

BoxShape == Primary.Components["EditorBoxShapeComponent"].Configuration
ShapeCollider == Primary.Components["EditorShapeColliderComponent"]

\* the translation the entity's TransformComponent states, none written being
\* the origin
TranslateOf(entity) ==
    LET tc == entity.Components["TransformComponent"] IN
    IF "TransformData" \in DOMAIN tc
    THEN OffsetIn(tc.TransformData, "Translate")
    ELSE <<0, 0, 0>>
TranslateWritten(entity) ==
    LET tc == entity.Components["TransformComponent"] IN
    "TransformData" \in DOMAIN tc /\ "Translate" \in DOMAIN tc.TransformData

\* what the claim says of the entity but for position and offset: one entity
\* with one box collider whose dimensions are the size with Y and Z swapped,
\* and the static-body marker
BoxEntityAsClaimed ==
    LET box == PhysGo.colliders[1] IN
    /\ DOMAIN prefab_data.Entities = {PrimaryId}
    /\ ColliderCount(Primary) = 1
    /\ BoxShape.Dimensions = <<box.size[1], box.size[3], box.size[2]>>
    /\ ShapeCollider.ShapeConfigs
          = <<[type |-> "BoxShapeConfiguration",
               Configuration |-> <<box.size[1], box.size[3], box.size[2]>>]>>
    /\ "EditorStaticRigidBodyComponent" \in DOMAIN Primary.Components
    /\ "EditorRigidBodyComponent" \notin DOMAIN Primary.Components
    /\ (PhysGo.transform.position = <<One, 2 * One, 3 * One>>
        /\ box.size = <<2 * One, 2 * One, 2 * One>> /\ box.center = <<0, 0, 0>>) =>
          /\ TranslateOf(Primary) = <<-One, 3 * One, 2 * One>>
          /\ BoxShape.Dimensions = <<2 * One, 2 * One, 2 * One>>
          /\ OffsetIn(BoxShape, "TranslationOffset") = <<0, 0, 0>>

C21_SyntheticStaticIffNoRigidbody ==
    Written =>
        \A id \in SyntheticIds :
            LET components == prefab_data.Entities[id].Components IN
            /\ ColliderCount(prefab_data.Entities[id]) = 1
            /\ components["TransformComponent"].ParentEntity = PrimaryId
            /\ "EditorRigidBodyComponent" \notin DOMAIN components
            /\ ("EditorStaticRigidBodyComponent" \in DOMAIN components)
                  <=> ~PhysGo.has_rigidbody

-----------------------------------------------------------------------------
(* Scale of an emitted entity (checked under SpecEntity)                    *)

\* the one entity the pipeline emitted for the node
EmittedNode ==
    LET entities == OutputDocument.Entities IN
    entities[CHOOSE id \in DOMAIN entities : TRUE]

\* the transform component of an entity, under the key the pipeline uses
TransformOf(entity) ==
    IF pipeline = "prefab" THEN entity.Components["EditorTransformComponent"]
    ELSE entity.Components["TransformComponent"]

\* the transform holds a single scalar scale
HasScalarScale(entity) ==
    /\ "TransformData" \in DOMAIN TransformOf(entity)
    /\ "Scale" \in DOMAIN TransformOf(entity).TransformData

\* the converted transform of the node and its flag, as the pipeline computes them
NodeConverted ==
    IF pipeline = "prefab" THEN PrefabConvert(game_objects["g1"].transform)
    ELSE PipelineConvert(game_objects["g1"].transform)

\* C22: in every pipeline an entity whose converted scale is flagged non-uniform
\* is emitted with a per-axis scale component holding the converted scale and
\* with no scalar scale in its transform; an entity not flagged has no per-axis
\* scale component.
C22_PerAxisScaleReplacesScalar ==
    pc = "emitted" =>
        LET components == EmittedNode.Components IN
        IF NodeConverted.needs_nonuniform
        THEN /\ "EditorNonUniformScaleComponent" \in DOMAIN components
             /\ components["EditorNonUniformScaleComponent"].Scale
                    = NodeConverted.transform.scale
             /\ ~HasScalarScale(EmittedNode)
        ELSE "EditorNonUniformScaleComponent" \notin DOMAIN components

\* the same statement of the two pipelines that write JSON documents
C22_Restricted ==
    pipeline # "prefab" => C22_PerAxisScaleReplacesScalar

-----------------------------------------------------------------------------
(* Material slots (checked under SpecMaterials)                             *)

\* the material references of the MeshRenderer as the file lists them
SourceSlots == file[3].data.m_Materials

\* the asset hint of the converted material of a reference, None if the
\* reference is empty or names no material that converts
ConvertedMaterial(guid) ==
    IF /\ guid \in DOMAIN guid_to_path
       /\ guid_to_path[guid].suffix = ".mat"
       /\ guid_to_path[guid].parses
    THEN project_name \o "/materials/" \o guid_to_path[guid].stem \o ".azmaterial"
    ELSE None

\* the output slot key of source slot i (counted from 1 here, from 0 in the key)
SlotKey(i) == "{" \o ToString(i - 1) \o "}"

\* the materials dict of the entity of the node, empty without the component
EmittedSlots ==
    LET components == prefab_data.Entities[EntityIdOf(InitialEntityCounter + 1)].Components
    IN  IF "EditorMaterialComponent" \in DOMAIN components
        THEN components["EditorMaterialComponent"].materials
        ELSE EmptyDict

\* the source slots whose reference resolves to a converted material
ResolvedSlots == {i \in DOMAIN SourceSlots : ConvertedMaterial(SourceSlots[i]) # None}

\* C23: material references are positional: the reference at source slot i that
\* resolves to a converted material is emitted under the output slot key '{i}';
\* empty and unresolved references are left out without shifting the keys of
\* the others, and the entity is emitted all the same.
C23_MaterialSlotsPositional ==
    pc = "done" =>
        /\ result = TRUE
        /\ EntityIdOf(InitialEntityCounter + 1) \in DOMAIN prefab_data.Entities
        /\ DOMAIN EmittedSlots = {SlotKey(i) : i \in ResolvedSlots}
        /\ \A i \in ResolvedSlots :
              EmittedSlots[SlotKey(i)].assetHint = ConvertedMaterial(SourceSlots[i])

\* the same statement of the files whose MeshRenderer has no empty slot
C23_WithoutEmptySlots ==
    (\A i \in DOMAIN SourceSlots : SourceSlots[i] # "") => C23_MaterialSlotsPositional

-----------------------------------------------------------------------------
(* GameObject records and block order (checked under SpecPermuted)          *)

\* the anchors of the GameObject blocks of the file
RecordAnchors == {file[i].anchor : i \in {j \in DOMAIN file : file[j].kind = "GameObject"}}

\* the GameObjects of the graph that are no prefab instances
PlainNodes == {k \in DOMAIN game_objects : ~game_objects[k].is_prefab_instance}

\* C24: after parsing and the build pass the non-instance GameObjects are
\* exactly the anchors of the GameObject records: one node per record and no
\* node for an anchor that only a Transform names as its owner.
C24_NodesAreGameObjectRecords ==
    pc = "built" => PlainNodes = RecordAnchors

\* the same statement of the files in which every Transform belongs to a
\* GameObject record
C24_WhenEveryOwnerHasARecord ==
    (\A i \in DOMAIN file :
        file[i].kind = "Transform" => file[i].m_GameObject \in RecordAnchors)
    => C24_NodesAreGameObjectRecords

\* the graph of a set of GameObjects: its nodes with name, transform, parent
\* and children
Graph(gos) ==
    [k \in DOMAIN gos |->
        [name |-> gos[k].name, transform |-> gos[k].transform,
         parent_id |-> gos[k].parent_id, children_ids |-> gos[k].children_ids]]

\* the blocks of the file in the order Unity writes them
UnityOrder == CHOOSE base \in PermutedBases : Range(base) = Range(file)

\* C27: the graph parsing and the build pass produce does not depend on the
\* order of the blocks: every permutation of the blocks, a Transform before or
\* after its GameObject, yields the graph of the file in Unity's order.
C27_GraphIndependentOfBlockOrder ==
    pc = "built" => Graph(game_objects) = Graph(GraphOf(pipeline, UnityOrder))

\* the same statement of the files in which every parent lists its children
C27_WhenChildrenListed ==
    (\A i \in DOMAIN file :
        (file[i].kind = "Transform" /\ file[i].anchor = "t1")
            => file[i].m_Children # <<>>)
    => C27_GraphIndependentOfBlockOrder

-----------------------------------------------------------------------------
(* The serializer's walk (checked under SpecOrder)                          *)

\* the GameObjects the walk reaches from the nodes of from over children_ids
RECURSIVE ReachableFrom(_)
ReachableFrom(from) ==
    LET next == from \cup {c \in DOMAIN game_objects :
                              \E k \in from :
                                 c \in Range(game_objects[k].children_ids)}
    IN  IF next = from THEN from ELSE ReachableFrom(next)

\* the nodes the walk starts from: the first root in the integrated pipeline,
\* every root in the scene pipeline
WalkRoots ==
    LET roots == RootIds(go_order, game_objects) IN
    IF pipeline = "scene" THEN Range(roots)
    ELSE IF roots = <<>> THEN {} ELSE {roots[1]}

\* the entities of the document made for GameObject k (the names of the nodes
\* of a file differ)
EntitiesOf(k) ==
    {id \in DOMAIN OutputDocument.Entities :
        OutputDocument.Entities[id].Name = game_objects[k].name}

\* some GameObject is in the children lists of two nodes
SharedChild ==
    \E c \in DOMAIN game_objects : \E a, b \in DOMAIN game_objects :
        /\ a # b
        /\ c \in Range(game_objects[a].children_ids)
        /\ c \in Range(game_objects[b].children_ids)

\* C25: the walk from the root terminates and consumes each reachable
\* GameObject exactly once, also when a GameObject is in the children lists of
\* two nodes: the document is written and holds one entity for each reachable
\* GameObject record.
C25_EachNodeConsumedOnce ==
    pc = "done" =>
        /\ OutputDocument # NoData
        /\ \A k \in ReachableFrom(WalkRoots) \cap {"g1", "g2", "g3"} :
              Cardinality(EntitiesOf(k)) = 1

\* the same statement of the graphs in which no GameObject has two listers
C25_WithoutSharedChild ==
    ~SharedChild => C25_EachNodeConsumedOnce

-----------------------------------------------------------------------------
(* Mesh baking and the asset caches (checked under SpecAssets)              *)

\* the mesh guids of the file just processed that name a mesh file
FileMeshes ==
    {g \in AllMeshGuids(game_objects) :
        g \in DOMAIN guid_to_path /\ guid_to_path[g].suffix \in mesh_extensions}

\* the mesh of guid is in the output folder and the guid is recorded
MeshDelivered(guid) ==
    /\ guid \in DOMAIN processed_meshes
    /\ ("Meshes/" \o guid_to_path[guid].name) \in output_files

\* C26: whatever the Blender call does (success, non-zero exit, timeout,
\* executable not found, another OS error), _process_mesh raises nothing, and
\* after a failure the raw copy is there: process_prefab returns True, the
\* output mesh exists and its guid is in processed_meshes.
C26_BakeFailureFallsBackToCopy ==
    pc = "done" =>
        /\ result = TRUE
        /\ \A g \in FileMeshes : MeshDelivered(g)

\* the same statement of the runs in which no Blender call raised an error
\* other than the two bake_fbx_with_blender catches
C26_WhenBakeReturns ==
    (\A l \in log : l.msg # "Failed to process mesh")
    => C26_BakeFailureFallsBackToCopy

\* every entry of dict d is in d after the step, with the same value
Kept(d, after) == \A g \in DOMAIN d : g \in DOMAIN after /\ after[g] = d[g]

\* C29: across the process_prefab calls of a run the three processed maps only
\* grow, the path recorded for a guid never changes, each guid's asset is
\* converted or copied at most once, and the asset index is not changed.
C29_CachesGrowOnly ==
    [][/\ Kept(processed_materials, processed_materials')
       /\ Kept(processed_textures, processed_textures')
       /\ Kept(processed_meshes, processed_meshes')
       /\ \A g \in DOMAIN copies' : copies'[g] <= 1
       /\ guid_to_path' = guid_to_path]_vars

\* a second prefab of the batch was written from the caches: its mesh, its
\* material and the material's texture were recorded by an earlier prefab and
\* written once
C29_Witness ==
    /\ pc = "done" /\ result = TRUE
    /\ Len(returned) >= 1 /\ returned[1] = TRUE
    /\ prefab_files[1] = file
    /\ AllMeshGuids(game_objects) = {"guid_mesh"}
    /\ "guid_mesh" \in DOMAIN processed_meshes /\ copies["guid_mesh"] = 1
    /\ "guid_mat" \in DOMAIN processed_materials /\ copies["guid_mat"] = 1
    /\ "guid_tex" \in DOMAIN processed_textures /\ copies["guid_tex"] = 1

-----------------------------------------------------------------------------
(* Referential closure of the documents (checked under SpecOrder)           *)

\* the document is written: the prefab of the integrated pipeline, the level of
\* the scene pipeline
DocumentWritten == pc = "done" /\ OutputDocument # NoData

\* the references a child order may hold: the keys of Entities and the
\* container entities of the keys of Instances
EntityKeys == DOMAIN OutputDocument.Entities
InstanceRefs == {i \o "/ContainerEntity" : i \in DOMAIN OutputDocument.Instances}

\* the Id of the container entity, by which its children name it
ContainerId == OutputDocument.ContainerEntity.Id

\* the children entity e lists, e being the container or a key of Entities
ListedBy(e) ==
    IF e = ContainerId THEN Range(OutputDocument.ContainerEntity.ChildEntityOrder)
    ELSE Range(ChildOrderOf(e))

\* C28: every emitted document is referentially closed and consistent in both
\* directions: each Parent Entity names the container or a key of Entities,
\* each Child Entity Order entry names a key of Entities or the container
\* entity of a key of Instances, and E lists C exactly if C's parent link
\* names E.
C28_DocumentClosedBothWays ==
    DocumentWritten =>
        /\ \A x \in EntityKeys :
              OutputDocument.Entities[x].Components["TransformComponent"].ParentEntity
                 \in EntityKeys \cup {ContainerId}
        /\ \A e \in EntityKeys \cup {ContainerId} :
              /\ ListedBy(e) \subseteq EntityKeys \cup InstanceRefs
              /\ ListedBy(e) = EmittedChildren(e)

\* a document in which an entity lists a GameObject child, a collider child
\* and a nested instance
C28_Witness ==
    /\ DocumentWritten
    /\ \E e \in EntityKeys :
          /\ ListedBy(e) \cap InstanceRefs # {}
          /\ \E x, y \in ListedBy(e) \cap EntityKeys :
                /\ ColliderIndexOf(e, x) = 0
                /\ ColliderIndexOf(e, y) > 0

-----------------------------------------------------------------------------
(* The start button and its worker (checked under FairSpecButton)           *)

\* the worker thread has ended: its finally clause has handed the re-enabling
\* of the button to the main loop
WorkerEnded == pc = "ended"

\* C30: in both windows the start button is disabled before the worker thread
\* starts and stays disabled until the worker ends, so at most one worker
\* runs; after the worker ends, by success or by exception, the button is
\* eventually enabled again.
C30_ButtonDisabledWhileWorkerRuns ==
    /\ [](workers > 0 => btn_state = "disabled")
    /\ [](workers <= 1)
    /\ WorkerEnded ~> (btn_state = "normal")

\* the button enabled again after a worker that ended by an exception
C30_Witness ==
    /\ WorkerEnded
    /\ WorkerRaised
    /\ after_queue = <<>>
    /\ btn_state = "normal"

====
